---- MODULE Spec2Model ----
(***************************************************************************)
(* Model of the prediction validation engine of Sup-Ai.                    *)
(*                                                                         *)
(* Live Validation Tracker: src/src/paper_trading_validator.py             *)
(*   class PaperTradingValidator                                           *)
(*                                                                         *)
(* Units.  The clock counts ticks, TicksPerSecond of them in a second      *)
(* (datetime has a finer resolution than the second that strftime keeps).  *)
(* Prices are integers in units of 1e-9 and confidences in units of 1e-4,  *)
(* so that the CSV formats "%.8f" and "%.3f" round, as they do in the      *)
(* program.  A CSV cell holding a formatted number is the integer count of *)
(* its last printed decimal place.  Arithmetic is exact (rationals).       *)
(***************************************************************************)
EXTENDS Integers, Sequences, FiniteSets, TLC

VARIABLES
    now,                      \* the wall clock, datetime.now(), in ticks
    predictions_file,         \* data/ml_predictions.csv: header row, then rows
    paper_trades_file,        \* data/paper_trades.csv
    validation_results_file,  \* data/prediction_validation.csv
    active_paper_trades,      \* self.active_paper_trades
    pc,                       \* validate_predictions: "idle" or "await" (suspended in a fetch)
    current_time,             \* validate_predictions: local current_time
    trades_to_remove,         \* validate_predictions: local trades_to_remove
    trade_idx,                \* validate_predictions: position of the list iterator
    period_idx,               \* validate_predictions: position in validation_periods
    returned,                 \* the last public call and the value it returned
    attempts,                 \* history: the fetches of the current (else the last) pass
    scanned,                  \* history: the list the last finished pass iterated over
    pending_retry,            \* history: the fetches that failed in the pass before
    failures,                 \* history: number of fetches that have failed
    passes,                   \* history: number of validate_predictions passes started
    reports,                  \* history: number of accuracy reports asked for
    restarts,                 \* history: number of restarts
    trades,                   \* the backtester's self.trades
    tasks,                    \* the coroutines that call validate_predictions
    frame,                    \* run_backtest: its locals while it runs
    config                    \* the dashboard: the configuration modify_config holds

vars == << now, predictions_file, paper_trades_file, validation_results_file,
           active_paper_trades, pc, current_time, trades_to_remove, trade_idx,
           period_idx, returned, attempts, scanned, pending_retry,
           failures, passes, reports, restarts, trades, tasks, frame,
                    config >>

---------------------------------------------------------------------------
(* Bounds of the model *)

TicksPerSecond == 2
MaxSub == 1
MaxMinutes == 30
MaxLogMinutes == 5
MaxPredictions == 2
MaxPasses == 2
MaxFetchFailures == 1
MaxRestarts == 1
MaxCalls == 3
MaxReloadRows == 2
MaxReportRows == 2
MaxBars == 2
MaxTrades == 2

Minute == 60 * TicksPerSecond

\* the public calls made so far
calls == Len(predictions_file) - 1 + passes + reports + restarts

---------------------------------------------------------------------------
(* Helpers *)

Range(s) == { s[k] : k \in 1..Len(s) }

IsPrefix(s, t) == Len(s) <= Len(t) /\ \A k \in 1..Len(s) : s[k] = t[k]

Abs(x) == IF x < 0 THEN -x ELSE x

\* n / d rounded to the nearest integer, ties to even (d > 0): the rounding
\* of Python's format for a value that is exactly representable
RoundDiv(n, d) ==
    LET q == n \div d
        r == n % d
    IN  IF 2 * r < d THEN q
        ELSE IF 2 * r > d THEN q + 1
        ELSE IF q % 2 = 0 THEN q ELSE q + 1

\* f"{x:.8f}" of a price (units 1e-9): the count of 1e-8
Format8f(x) == RoundDiv(x, 10)
\* float(cell) of a "%.8f" cell, back in units of 1e-9
Float8f(cell) == cell * 10
\* f"{x:.3f}" of a confidence (units 1e-4): the count of 1e-3
Format3f(x) == RoundDiv(x, 10)
Float3f(cell) == cell * 10

\* ','.join(names) and cell.split(','): the text keeps the names in order
Join(names) == names
Split(cell) == cell

None == -1

---------------------------------------------------------------------------
(* Configuration set by __init__ *)

validation_periods ==
    << [name |-> "5min",  minutes |-> 5],
       [name |-> "10min", minutes |-> 10],
       [name |-> "15min", minutes |-> 15],
       [name |-> "30min", minutes |-> 30] >>

\* max(self.validation_periods, key=lambda x: x['minutes']): the first maximum
max_period ==
    LET k == CHOOSE k \in 1..Len(validation_periods) :
                 /\ \A j \in 1..Len(validation_periods) :
                        validation_periods[j].minutes <= validation_periods[k].minutes
                 /\ \A j \in 1..(k - 1) :
                        validation_periods[j].minutes < validation_periods[k].minutes
    IN  validation_periods[k]

period_names == [k \in 1..Len(validation_periods) |-> validation_periods[k].name]

\* timedelta(minutes=m)
timedelta(m) == m * Minute

\* self.profit_thresholds, in units of 1e-4 (0.001, 0.0012, 0.002, 0.005)
break_even == 10
min_profit == 12
good_profit == 20
excellent == 50

\* profit >= threshold, for the profit num/den (den > 0) and a threshold in 1e-4
ProfitAtLeast(num, den, threshold) == num * 10000 >= threshold * den

---------------------------------------------------------------------------
(* The three CSV files: a header row, then data rows *)

predictions_header ==
    [header |-> << "timestamp", "coin", "prediction_id", "direction", "confidence",
                   "entry_price", "target_price", "stop_loss", "psc_ratio",
                   "ml_prediction_value", "signal_strength", "market_conditions",
                   "tradingview_sentiment", "expected_profit_pct" >>]

paper_trades_header ==
    [header |-> << "prediction_id", "coin", "direction", "entry_time", "entry_price",
                   "target_price", "confidence", "status", "validation_periods" >>]

validation_results_header ==
    [header |-> << "prediction_id", "coin", "direction", "entry_time", "entry_price",
                   "confidence", "validation_period", "exit_time", "exit_price",
                   "actual_profit_pct", "target_hit", "success", "prediction_accuracy",
                   "profit_category", "ml_prediction_value" >>]

\* Path.exists(): a file the program created holds at least its header
exists(file) == Len(file) > 0

\* csv.DictReader(f): the rows after the header
DictReader(file) == IF Len(file) = 0 THEN << >> ELSE Tail(file)

\* mutant of setup_csv_file: the file is written anew at every start
setup_csv_file_truncating(file, header) == << header >>

\* setup_csv_files, for one file: written (mode 'w') only if it does not exist
setup_csv_file(file, header) == IF ~exists(file) THEN << header >> ELSE file

---------------------------------------------------------------------------
(* categorize_profit *)

categorize_profit(num, den) ==
    IF ProfitAtLeast(num, den, excellent) THEN "EXCELLENT"
    ELSE IF ProfitAtLeast(num, den, good_profit) THEN "GOOD"
    ELSE IF ProfitAtLeast(num, den, min_profit) THEN "PROFITABLE"
    ELSE IF ProfitAtLeast(num, den, break_even) THEN "BREAK_EVEN"
    ELSE "LOSS"

---------------------------------------------------------------------------
(* Inputs *)

\* Arguments of log_prediction.  numeric = FALSE stands for a call in which some
\* numeric argument is not a number, so that its format raises.
LogInputs ==
    { [coin |-> "BTC", direction |-> "LONG", confidence |-> 8126,
       entry_price |-> 10004, target_price |-> 10022,
       psc_ratio |-> 1304, ml_prediction_value |-> 7000, numeric |-> TRUE],
      [coin |-> "ETH", direction |-> "SHORT", confidence |-> 6500,
       entry_price |-> 10000, target_price |-> 9986,
       psc_ratio |-> 850, ml_prediction_value |-> 3000, numeric |-> TRUE],
      [coin |-> "BTC", direction |-> "LONG", confidence |-> 0,
       entry_price |-> 10004, target_price |-> 10022,
       psc_ratio |-> 0, ml_prediction_value |-> 0, numeric |-> FALSE] }

Coins == { inp.coin : inp \in LogInputs }

\* The price the exchange quotes for a coin at time t (units 1e-9): above the
\* entry prices during the first quarter of an hour, below them afterwards
exchange_price(coin, t) == IF t < 15 * Minute THEN 10030 ELSE 9980

\* What the HTTP request of get_current_price may end in
Responses(coin) ==
    { [kind |-> "response", status |-> 200, price |-> exchange_price(coin, now)],
      [kind |-> "response", status |-> 503, price |-> 0],
      [kind |-> "exception", status |-> 0, price |-> 0] }

---------------------------------------------------------------------------
(* log_prediction and start_paper_trade *)

\* datetime.strftime('%Y%m%d_%H%M%S'): the time cut to the second
strftime(t) == t \div TicksPerSecond

\* datetime.isoformat() and datetime.fromisoformat(): the text keeps every digit
isoformat(t) == t
fromisoformat(cell) == cell

\* f"{coin}_{datetime.now().strftime('%Y%m%d_%H%M%S')}_{direction}"
make_prediction_id(coin, t, direction) == << coin, strftime(t), direction >>

\* entry_price * (0.995 if direction == "LONG" else 1.005), as a "%.8f" cell
stop_loss_cell(entry_price, direction) ==
    RoundDiv(entry_price * (IF direction = "LONG" THEN 995 ELSE 1005), 10000)

prediction_row(inp, prediction_id, t) ==
    [ timestamp |-> isoformat(t),
      coin |-> inp.coin,
      prediction_id |-> prediction_id,
      direction |-> inp.direction,
      confidence |-> Format3f(inp.confidence),
      entry_price |-> Format8f(inp.entry_price),
      target_price |-> Format8f(inp.target_price),
      stop_loss |-> stop_loss_cell(inp.entry_price, inp.direction),
      psc_ratio |-> RoundDiv(inp.psc_ratio, 10),
      ml_prediction_value |-> Format3f(inp.ml_prediction_value),
      signal_strength |-> "MODERATE",
      market_conditions |-> "NORMAL",
      tradingview_sentiment |-> 500,
      expected_profit_pct |-> 150 ]

\* the dict start_paper_trade builds
new_paper_trade(prediction_id, inp, t) ==
    [ prediction_id |-> prediction_id,
      coin |-> inp.coin,
      direction |-> inp.direction,
      entry_time |-> t,
      entry_price |-> inp.entry_price,
      target_price |-> inp.target_price,
      confidence |-> inp.confidence,
      status |-> "ACTIVE",
      validation_periods |-> period_names ]

paper_trade_row(trade) ==
    [ prediction_id |-> trade.prediction_id,
      coin |-> trade.coin,
      direction |-> trade.direction,
      entry_time |-> isoformat(trade.entry_time),
      entry_price |-> Format8f(trade.entry_price),
      target_price |-> Format8f(trade.target_price),
      confidence |-> Format3f(trade.confidence),
      status |-> "ACTIVE",
      validation_periods |-> Join(trade.validation_periods) ]

\* mutant of start_paper_trade_active: the new entry is put first
start_paper_trade_active_first(active, trade) == << trade >> \o active

\* start_paper_trade: the active list and the paper-trade file after it
start_paper_trade_active(active, trade) == Append(active, trade)
start_paper_trade_file(file, trade) == Append(file, paper_trade_row(trade))

\* what log_prediction(inp) does: a format that raises is caught, nothing is
\* written and None is returned
logs_prediction(inp) ==
    /\ IF inp.numeric
       THEN LET prediction_id == make_prediction_id(inp.coin, now, inp.direction)
                trade == new_paper_trade(prediction_id, inp, now)
            IN  /\ predictions_file' =
                       Append(predictions_file, prediction_row(inp, prediction_id, now))
                /\ active_paper_trades' = start_paper_trade_active(active_paper_trades, trade)
                /\ paper_trades_file' = start_paper_trade_file(paper_trades_file, trade)
                /\ returned' = [op |-> "log_prediction", value |-> << prediction_id >>]
       ELSE /\ returned' = [op |-> "log_prediction", value |-> << >>]
            /\ UNCHANGED << predictions_file, active_paper_trades, paper_trades_file >>
    /\ UNCHANGED << now, validation_results_file, pc, current_time, trades_to_remove,
                    trade_idx, period_idx, attempts, scanned, pending_retry,
                    failures, passes, reports, restarts, trades, tasks, frame,
                    config >>

\* log_prediction is called, within the first minutes of the model's clock
log_prediction(inp) ==
    /\ calls < MaxCalls
    /\ Len(DictReader(predictions_file)) < MaxPredictions
    /\ now <= timedelta(MaxLogMinutes)
    /\ logs_prediction(inp)

---------------------------------------------------------------------------
(* validate_predictions, validate_trade_at_period, get_current_price *)

\* get_current_price: the price of a 200 response; None for any other status
\* and for an exception
get_current_price(resp) ==
    IF resp.kind = "exception" THEN None
    ELSE IF resp.status = 200 THEN resp.price
    ELSE None

\* the outcome validate_trade_at_period computes: profit is num/den
actual_profit_num(trade, current_price) ==
    IF trade.direction = "LONG"
    THEN current_price - trade.entry_price
    ELSE trade.entry_price - current_price

target_hit(trade, current_price) ==
    IF trade.direction = "LONG"
    THEN current_price >= trade.target_price
    ELSE current_price <= trade.target_price

\* mutant of live_success: strictly above the minimum profit
live_success_strict(num, den) == num * 10000 > min_profit * den

\* actual_profit_pct >= self.profit_thresholds['min_profit']
live_success(num, den) == ProfitAtLeast(num, den, min_profit)

\* max(0, 1 - abs(expected_profit - actual_profit_pct) / expected_profit) as a
\* "%.3f" cell; expected_profit = abs(target_price - entry_price) / entry_price
prediction_accuracy_cell(trade, num) ==
    LET e == Abs(trade.target_price - trade.entry_price)
        a == e - Abs(e - num)
    IN  IF a <= 0 THEN 0 ELSE RoundDiv(1000 * a, e)

\* the two divisions of validate_trade_at_period raise ZeroDivisionError, which
\* its except clause swallows: no row is written
validate_raises(trade) ==
    trade.entry_price = 0 \/ trade.target_price = trade.entry_price

validation_row(trade, period, current_price, t) ==
    LET num == actual_profit_num(trade, current_price)
        den == trade.entry_price
    IN  [ prediction_id |-> trade.prediction_id,
          coin |-> trade.coin,
          direction |-> trade.direction,
          entry_time |-> isoformat(trade.entry_time),
          entry_price |-> Format8f(trade.entry_price),
          confidence |-> Format3f(trade.confidence),
          validation_period |-> period.name,
          exit_time |-> isoformat(t),
          exit_price |-> Format8f(current_price),
          actual_profit_pct |-> RoundDiv(num * 100000, den),
          target_hit |-> target_hit(trade, current_price),
          success |-> live_success(num, den),
          prediction_accuracy |-> prediction_accuracy_cell(trade, num),
          profit_category |-> categorize_profit(num, den),
          ml_prediction_value |-> 0 ]

\* whether validate_trade_at_period appends a row, given what the fetch returned
writes_row(trade, current_price) ==
    current_price # None /\ ~validate_raises(trade)

\* validate_trade_at_period after its await: the validation file
validate_trade_at_period(file, trade, period, current_price, t) ==
    IF writes_row(trade, current_price)
    THEN Append(file, validation_row(trade, period, current_price, t))
    ELSE file

\* mutant of period_due: the horizon's minutes are left out
period_due_at_once(ct, trade, period) == ct >= trade.entry_time

\* mutant of period_due: a horizon is due only in the interval that follows its
\* deadline
period_due_one_interval(ct, trade, period) ==
    /\ ct >= trade.entry_time + timedelta(period.minutes)
    /\ ct < trade.entry_time + timedelta(period.minutes) + 5 * Minute

\* current_time >= trade['entry_time'] + timedelta(minutes=period['minutes'])
period_due(ct, trade, period) ==
    ct >= trade.entry_time + timedelta(period.minutes)

\* mutant of trade_complete: the first horizon instead of the longest
trade_complete_first_period(ct, trade) ==
    ct >= trade.entry_time + timedelta(validation_periods[1].minutes)

\* mutant of trade_complete: > for >=
trade_complete_strict(ct, trade) ==
    ct > trade.entry_time + timedelta(max_period.minutes)

\* current_time >= final_validation_time
trade_complete(ct, trade) ==
    ct >= trade.entry_time + timedelta(max_period.minutes)

\* list.remove(x): the list without its first element equal to x
list_remove(list, x) ==
    LET k == CHOOSE k \in 1..Len(list) :
                 list[k] = x /\ \A j \in 1..(k - 1) : list[j] # x
    IN  SubSeq(list, 1, k - 1) \o SubSeq(list, k + 1, Len(list))

\* mutant of remove_completed: the active set is emptied
remove_completed_all(active, rem) == [active |-> << >>, raised |-> FALSE]

\* for trade in trades_to_remove: self.active_paper_trades.remove(trade)
\* (ValueError when the trade is not in the list)
RECURSIVE remove_completed(_, _)
remove_completed(active, rem) ==
    IF rem = << >> THEN [active |-> active, raised |-> FALSE]
    ELSE IF Head(rem) \notin Range(active) THEN [active |-> active, raised |-> TRUE]
    ELSE remove_completed(list_remove(active, Head(rem)), Tail(rem))

\* The loop of validate_predictions from the iterator position (i, p) up to its
\* next await (a due period of trade i) or to the end of the pass.
RECURSIVE run_to_await(_, _, _, _, _)
run_to_await(active, i, p, ct, rem) ==
    IF i > Len(active)
    THEN LET r == remove_completed(active, rem)
         IN  [pc |-> "idle", active |-> r.active, scanned |-> active, i |-> i, p |-> p,
              rem |-> rem, raised |-> r.raised]
    ELSE IF p > Len(validation_periods)
    THEN IF trade_complete(ct, active[i])
         THEN LET marked == [active EXCEPT ![i].status = "COMPLETED"]
              IN  run_to_await(marked, i + 1, 1, ct, Append(rem, marked[i]))
         ELSE run_to_await(active, i + 1, 1, ct, rem)
    ELSE IF period_due(ct, active[i], validation_periods[p])
    THEN [pc |-> "await", active |-> active, scanned |-> scanned, i |-> i, p |-> p,
          rem |-> rem, raised |-> FALSE]
    ELSE run_to_await(active, i, p + 1, ct, rem)

\* the fetches of a pass that failed, each with whether the pass evicted its entry
failed_fetches(att, ct) ==
    { [prediction_id |-> att[k].prediction_id, entry_time |-> att[k].entry_time,
       period |-> att[k].period,
       evicted |-> ct >= att[k].entry_time + timedelta(max_period.minutes)] :
      k \in { j \in 1..Len(att) : ~att[j].fetched } }

\* the state after the loop has run from (i, p) to its next stop
pass_continues(i, p, ct, rem, att) ==
    LET r == run_to_await(active_paper_trades, i, p, ct, rem)
    IN  /\ pc' = r.pc
        /\ active_paper_trades' = r.active
        /\ trades_to_remove' = r.rem
        /\ trade_idx' = r.i
        /\ period_idx' = r.p
        /\ scanned' = r.scanned
        /\ attempts' = att
        /\ returned' = IF r.pc = "idle"
                       THEN [op |-> "validate_predictions",
                             value |-> IF r.raised THEN << "ValueError" >> ELSE << >>]
                       ELSE returned

\* validate_predictions is called (by run_validation_loop): with an empty list
\* it returns at once; else it runs to its first await or to its end
validate_predictions ==
    /\ pc = "idle"
    /\ calls < MaxCalls
    /\ passes < MaxPasses
    /\ current_time' = IF active_paper_trades = << >> THEN current_time ELSE now
    /\ passes' = passes + 1
    /\ pending_retry' = failed_fetches(attempts, current_time)
    /\ pass_continues(1, 1, now, << >>, << >>)
    /\ UNCHANGED << now, predictions_file, paper_trades_file, validation_results_file,
                    failures, reports, restarts, trades, tasks, frame,
                    config >>

\* mutant of resume_at: a failed fetch ends the loop
resume_at_aborting(active, i, p, current_price) ==
    IF current_price = None THEN [i |-> Len(active) + 1, p |-> 1]
    ELSE [i |-> i, p |-> p + 1]

\* where the loop of validate_predictions goes on once validate_trade_at_period
\* has returned (it returns normally whatever the fetch gave: it swallows every
\* exception): the next period of the same trade
resume_at(active, i, p, current_price) == [i |-> i, p |-> p + 1]

\* the fetch the pass is suspended in ends with resp: validate_trade_at_period
\* finishes and the loop goes on to its next await or to its end
fetch_returns(resp) ==
    /\ pc = "await"
    /\ resp \in Responses(active_paper_trades[trade_idx].coin)
    /\ get_current_price(resp) = None => failures < MaxFetchFailures
    /\ failures' = IF get_current_price(resp) = None THEN failures + 1 ELSE failures
    /\ LET trade == active_paper_trades[trade_idx]
           period == validation_periods[period_idx]
           current_price == get_current_price(resp)
           attempt == [idx |-> trade_idx, prediction_id |-> trade.prediction_id,
                       entry_time |-> trade.entry_time, period |-> period.name,
                       fetched |-> current_price # None,
                       ok |-> writes_row(trade, current_price)]
           at == resume_at(active_paper_trades, trade_idx, period_idx, current_price)
       IN  /\ validation_results_file' =
                  validate_trade_at_period(validation_results_file, trade, period,
                                           current_price, now)
           /\ pass_continues(at.i, at.p, current_time, trades_to_remove,
                             Append(attempts, attempt))
    /\ UNCHANGED << now, predictions_file, paper_trades_file, current_time,
                    pending_retry, passes, reports, restarts, trades, tasks, frame,
                    config >>

---------------------------------------------------------------------------
(* load_active_paper_trades and the constructor *)

trade_of_row(row) ==
    [ prediction_id |-> row.prediction_id,
      coin |-> row.coin,
      direction |-> row.direction,
      entry_time |-> fromisoformat(row.entry_time),
      entry_price |-> Float8f(row.entry_price),
      target_price |-> Float8f(row.target_price),
      confidence |-> Float3f(row.confidence),
      status |-> "ACTIVE",
      validation_periods |-> Split(row.validation_periods) ]

\* mutant of row_is_loaded: the validation window is not looked at
row_is_loaded_any_age(row, t) == row.status = "ACTIVE"

\* only rows with status ACTIVE that are still within the validation window
row_is_loaded(row, t) ==
    /\ row.status = "ACTIVE"
    /\ t < fromisoformat(row.entry_time) + timedelta(max_period.minutes)

\* datetime.fromisoformat(cell) and float(cell) raise ValueError for a cell that
\* holds no date and no number (None stands for such a cell)
parse_raises(cell) == cell = None

\* the body of the row loop raises: the entry_time of an ACTIVE row does not
\* parse, or a number of an ACTIVE row within the window does not
row_raises(row, t) ==
    /\ row.status = "ACTIVE"
    /\ \/ parse_raises(row.entry_time)
       \/ /\ t < fromisoformat(row.entry_time) + timedelta(max_period.minutes)
          /\ \/ parse_raises(row.entry_price)
             \/ parse_raises(row.target_price)
             \/ parse_raises(row.confidence)

\* for row in reader: ...; the try is around the whole loop, so the first row
\* that raises ends the loading, with the entries appended so far kept
RECURSIVE load_rows(_, _, _)
load_rows(rows, t, active) ==
    IF rows = << >> THEN active
    ELSE IF row_raises(Head(rows), t) THEN active
    ELSE IF row_is_loaded(Head(rows), t)
    THEN load_rows(Tail(rows), t, Append(active, trade_of_row(Head(rows))))
    ELSE load_rows(Tail(rows), t, active)

load_active_paper_trades(file, t) ==
    IF exists(file) THEN load_rows(DictReader(file), t, << >>) ELSE << >>

\* The process is restarted: __init__ runs setup_csv_files and
\* load_active_paper_trades; a pass that was in flight is gone with the process.
restart ==
    /\ calls < MaxCalls
    /\ restarts < MaxRestarts
    /\ restarts' = restarts + 1
    /\ predictions_file' = setup_csv_file(predictions_file, predictions_header)
    /\ paper_trades_file' = setup_csv_file(paper_trades_file, paper_trades_header)
    /\ validation_results_file' =
           setup_csv_file(validation_results_file, validation_results_header)
    /\ active_paper_trades' = load_active_paper_trades(paper_trades_file', now)
    /\ pc' = "idle"
    /\ current_time' = 0
    /\ trades_to_remove' = << >>
    /\ trade_idx' = 1
    /\ period_idx' = 1
    /\ returned' = [op |-> "__init__", value |-> << >>]
    /\ attempts' = << >>
    /\ scanned' = << >>
    /\ pending_retry' = {}
    /\ UNCHANGED << now, failures, passes, reports, trades, tasks, frame,
                    config >>

---------------------------------------------------------------------------
(* The clock, followed as long as the model has calls left to make *)

\* run_validation_loop(interval_minutes=5)
interval_minutes == 5

\* a tick passes (the clock is followed tick by tick for its first MaxSub ticks)
tick ==
    /\ calls < MaxCalls
    /\ now < MaxSub
    /\ now' = now + 1
    /\ UNCHANGED << predictions_file, paper_trades_file, validation_results_file,
                    active_paper_trades, pc, current_time, trades_to_remove, trade_idx,
                    period_idx, returned, attempts, scanned, pending_retry,
                    failures, passes, reports, restarts, trades, tasks, frame,
                    config >>

\* Time passes up to the next multiple of the loop interval.  No pass is
\* suspended that long: a fetch ends within aiohttp's total timeout.
sleep ==
    LET next == ((now \div timedelta(interval_minutes)) + 1) * timedelta(interval_minutes)
    IN  /\ pc = "idle"
        /\ calls < MaxCalls
        /\ next <= timedelta(MaxMinutes)
        /\ now' = next
        /\ UNCHANGED << predictions_file, paper_trades_file, validation_results_file,
                        active_paper_trades, pc, current_time, trades_to_remove,
                        trade_idx, period_idx, returned, attempts, scanned,
                        pending_retry, failures, passes, reports, restarts, trades, tasks, frame,
                        config >>

---------------------------------------------------------------------------
(* get_prediction_accuracy_report *)

\* The days argument, a fraction num/den of a day: the default, days=7
ReportDays == { [num |-> 7, den |-> 1] }

\* days arguments with a window as short as the loop's interval among them
ReportWindows == ReportDays \cup { [num |-> 1, den |-> 288] }

\* timedelta(days=days)
timedelta_days(days) == (days.num * 24 * 60 * Minute) \div days.den

\* mutant of report_results: a row entered exactly at the cutoff is left out
report_results_after_cutoff(file, t, days) ==
    SelectSeq(DictReader(file),
              LAMBDA row : fromisoformat(row.entry_time) > t - timedelta_days(days))

\* the rows of the trailing window: entry_time >= cutoff_date
report_results(file, t, days) ==
    SelectSeq(DictReader(file),
              LAMBDA row : fromisoformat(row.entry_time) >= t - timedelta_days(days))

\* len([r for r in rows if r['success'] == 'True'])
count_success(rows) == Cardinality({ k \in 1..Len(rows) : rows[k].success })

\* a rate successful / total * 100, kept as a fraction
rate(successful, total) == [num |-> successful * 100, den |-> total]

direction_analysis(results, direction) ==
    LET rows == SelectSeq(results, LAMBDA r : r.direction = direction)
    IN  [ total |-> Len(rows),
          successful |-> count_success(rows),
          accuracy |-> IF Len(rows) > 0 THEN rate(count_success(rows), Len(rows))
                       ELSE rate(0, 1) ]

\* only the periods that have rows get an entry
time_period_analysis(results) ==
    LET of(name) == SelectSeq(results, LAMBDA r : r.validation_period = name)
        present == { name \in Range(period_names) : Len(of(name)) > 0 }
    IN  [ name \in present |->
            [ total |-> Len(of(name)),
              successful |-> count_success(of(name)),
              accuracy |-> rate(count_success(of(name)), Len(of(name))) ] ]

profit_categories(results) ==
    LET present == { results[k].profit_category : k \in 1..Len(results) }
    IN  [ c \in present |->
            Cardinality({ k \in 1..Len(results) : results[k].profit_category = c }) ]

accuracy_report(file, t, days) ==
    LET results == report_results(file, t, days)
    IN  IF ~exists(file) THEN [error |-> "No validation data available"]
        ELSE IF results = << >> THEN [error |-> "No validation data in last days"]
        ELSE [ period |-> days,
               total_predictions |-> Len(results),
               successful_predictions |-> count_success(results),
               overall_accuracy |-> rate(count_success(results), Len(results)),
               direction_analysis |->
                   [ long |-> direction_analysis(results, "LONG"),
                     short |-> direction_analysis(results, "SHORT") ],
               time_period_analysis |-> time_period_analysis(results),
               profit_categories |-> profit_categories(results) ]

\* what a call returns, with the history the properties need: its argument, the
\* number of rows the log held, the number of them within the window, and
\* whether the call before it was the same call over the same rows
report_returned(file, t, days, before) ==
    [ op |-> "get_prediction_accuracy_report",
      value |-> << accuracy_report(file, t, days) >>,
      days |-> days,
      rows |-> Len(DictReader(file)),
      window |-> Len(report_results(file, t, days)),
      again |-> /\ before.op = "get_prediction_accuracy_report"
                /\ before.days = days
                /\ before.rows = Len(DictReader(file)) ]

\* mutant of get_prediction_accuracy_report: the rows read are taken out of the log
get_prediction_accuracy_report_draining(days) ==
    /\ calls < MaxCalls
    /\ reports' = reports + 1
    /\ returned' = report_returned(validation_results_file, now, days, returned)
    /\ validation_results_file' = << validation_results_header >>
    /\ UNCHANGED << now, predictions_file, paper_trades_file,
                    active_paper_trades, pc, current_time, trades_to_remove, trade_idx,
                    period_idx, attempts, scanned, pending_retry,
                    failures, passes, restarts, trades, tasks, frame,
                    config >>

get_prediction_accuracy_report(days) ==
    /\ calls < MaxCalls
    /\ reports' = reports + 1
    /\ returned' = report_returned(validation_results_file, now, days, returned)
    /\ UNCHANGED << now, predictions_file, paper_trades_file, validation_results_file,
                    active_paper_trades, pc, current_time, trades_to_remove, trade_idx,
                    period_idx, attempts, scanned, pending_retry,
                    failures, passes, restarts, trades, tasks, frame,
                    config >>

---------------------------------------------------------------------------
(* The coroutines that call validate_predictions *)

\* run_validation_loop, and a caller that awaits validate_predictions itself
Tasks == { "loop", "caller" }

\* a coroutine that is not inside validate_predictions: where it is, the time
\* its sleep ends, and the number of passes it has called
outside_pass(at, wake, called) ==
    [ at |-> at, wake |-> wake, called |-> called, current_time |-> 0,
      trades_to_remove |-> << >>, trade |-> << >>, idx |-> 0, p |-> 1 ]

\* no coroutine has been started
no_tasks == [ task \in Tasks |-> outside_pass("idle", 0, 0) ]

\* run_backtest is not running
no_frame == [ at |-> "off" ]

\* SimpleDashboard.get_default_config, numbers in units of 1e-2
get_default_config ==
    [ trading |-> [ scan_interval |-> 3000,
                    confidence_threshold |-> 70,
                    ratio_threshold |-> 150,
                    max_positions |-> 500,
                    position_size |-> 100000,
                    stop_loss_pct |-> 500,
                    take_profit_pct |-> 1000 ],
      superp |-> [ enabled |-> TRUE,
                   conservative_range |-> << 100, 10000 >>,
                   moderate_range |-> << 10000, 100000 >>,
                   aggressive_range |-> << 100000, 500000 >>,
                   time_limit_minutes |-> 1000 ],
      ml |-> [ enabled |-> TRUE,
               retrain_interval |-> 5000,
               confidence_boost |-> 10 ] ]

---------------------------------------------------------------------------
(* The program *)

Init ==
    /\ now = 0
    /\ predictions_file = setup_csv_file(<< >>, predictions_header)
    /\ paper_trades_file = setup_csv_file(<< >>, paper_trades_header)
    /\ validation_results_file = setup_csv_file(<< >>, validation_results_header)
    /\ active_paper_trades = << >>
    /\ pc = "idle"
    /\ current_time = 0
    /\ trades_to_remove = << >>
    /\ trade_idx = 1
    /\ period_idx = 1
    /\ returned = [op |-> "__init__", value |-> << >>]
    /\ attempts = << >>
    /\ scanned = << >>
    /\ pending_retry = {}
    /\ failures = 0
    /\ passes = 0
    /\ reports = 0
    /\ restarts = 0
    /\ trades = << >>
    /\ tasks = no_tasks
    /\ frame = no_frame
    /\ config = get_default_config

Next ==
    \/ \E inp \in LogInputs : log_prediction(inp)
    \/ validate_predictions
    \/ \E resp \in UNION { Responses(coin) : coin \in Coins } : fetch_returns(resp)
    \/ \E days \in ReportDays : get_prediction_accuracy_report(days)
    \/ restart
    \/ tick
    \/ sleep

Spec == Init /\ [][Next]_vars

---------------------------------------------------------------------------
(* The start of the program over a paper-trade log found on disk *)

\* the rows a paper-trade log may hold: rows start_paper_trade wrote, and such
\* rows with a cell that does not parse
ReloadRows ==
    LET written == { paper_trade_row(new_paper_trade(
                         make_prediction_id(inp.coin, t, inp.direction), inp, t)) :
                     inp \in { i \in LogInputs : i.numeric },
                     t \in { 0, timedelta(interval_minutes) } }
    IN  written
        \cup { [row EXCEPT !.entry_time = None] : row \in written }
        \cup { [row EXCEPT !.entry_price = None] : row \in written }

\* the paper-trade logs of at most MaxReloadRows rows
RECURSIVE ReloadFiles(_)
ReloadFiles(n) ==
    IF n = 0 THEN { << paper_trades_header >> }
    ELSE ReloadFiles(n - 1)
         \cup { Append(file, row) : file \in { f \in ReloadFiles(n - 1) : Len(f) = n },
                                    row \in ReloadRows }

\* the times of the start: with the older rows inside, and outside, their window
ReloadTimes == { timedelta(2 * interval_minutes), timedelta(max_period.minutes) }

InitReload ==
    /\ now \in ReloadTimes
    /\ predictions_file = << predictions_header >>
    /\ paper_trades_file \in ReloadFiles(MaxReloadRows)
    /\ validation_results_file = << validation_results_header >>
    /\ active_paper_trades = << >>
    /\ pc = "idle"
    /\ current_time = 0
    /\ trades_to_remove = << >>
    /\ trade_idx = 1
    /\ period_idx = 1
    /\ returned = [op |-> "none", value |-> << >>]
    /\ attempts = << >>
    /\ scanned = << >>
    /\ pending_retry = {}
    /\ failures = 0
    /\ passes = 0
    /\ reports = 0
    /\ restarts = 0
    /\ trades = << >>
    /\ tasks = no_tasks
    /\ frame = no_frame
    /\ config = get_default_config

NextReload == restart

SpecReload == InitReload /\ [][NextReload]_vars

---------------------------------------------------------------------------
(* The historical backtester: BidirectionalBacktester *)

\* Units: a price is a whole number of thousandths of the quote currency, a
\* percentage (a fraction such as 0.0012) a whole number of 1e-5, a PSC ratio
\* and a confidence whole numbers of 1e-2, a time a whole number of minutes.
\* Arithmetic is exact: the rounding of binary floating point is not modelled.
PctUnit == 100000

\* self.break_even_pct = 0.001, self.min_profit_pct = 0.0012
break_even_pct == 100
min_profit_pct == 120
\* self.max_position_minutes = 10
max_position_minutes == 10
\* self.long_ratio_threshold = 1.25, self.short_ratio_threshold = 0.9,
\* self.short_strong_threshold = 0.8
long_ratio_threshold == 125
short_ratio_threshold == 90
short_strong_threshold == 80

\* mutant of update: a key the dict holds keeps its value
update_missing_keys(dict, other) == dict @@ other

\* dict.update(other): the keys of other take its values, the rest are kept
update(dict, other) == other @@ dict

\* mutant of determine_trade_direction: the SHORT threshold is exclusive
determine_trade_direction_strict_short(psc_ratio, price_momentum, volatility) ==
    IF psc_ratio >= long_ratio_threshold THEN "LONG"
    ELSE IF psc_ratio < short_ratio_threshold THEN "SHORT"
    ELSE "NEUTRAL"

determine_trade_direction(psc_ratio, price_momentum, volatility) ==
    IF psc_ratio >= 200 THEN "LONG"
    ELSE IF psc_ratio >= 150 THEN "LONG"
    ELSE IF psc_ratio >= long_ratio_threshold THEN "LONG"
    ELSE IF psc_ratio <= short_strong_threshold THEN "SHORT"
    ELSE IF psc_ratio <= short_ratio_threshold THEN "SHORT"
    ELSE "NEUTRAL"

\* mutant of target_band: the lowest band starts at the break-even percentage
target_band_from_break_even(confidence) ==
    IF confidence >= 80 THEN [low |-> 150, high |-> 200]
    ELSE IF confidence >= 60 THEN [low |-> 130, high |-> 150]
    ELSE [low |-> break_even_pct, high |-> 130]

\* the band calculate_target_price draws target_pct from
target_band(confidence) ==
    IF confidence >= 80 THEN [low |-> 150, high |-> 200]
    ELSE IF confidence >= 60 THEN [low |-> 130, high |-> 150]
    ELSE [low |-> 120, high |-> 130]

\* np.random.uniform(low, high): a value of [low, high); the model draws the
\* lowest, the middle and the highest
uniform(low, high) == { low, (low + high) \div 2, high - 1 }

\* mutant of calculate_target_price: the percentage is added for SHORT too
calculate_target_price_upward(entry_price, direction, target_pct) ==
    entry_price + (entry_price * target_pct) \div PctUnit

\* entry_price * (1 + target_pct), entry_price * (1 - target_pct)
calculate_target_price(entry_price, direction, target_pct) ==
    IF direction = "LONG"
    THEN entry_price + (entry_price * target_pct) \div PctUnit
    ELSE entry_price - (entry_price * target_pct) \div PctUnit

\* the dict simulate_trade returns
simulate_trade(symbol, entry_data, direction, confidence, target_pct) ==
    LET entry_price == entry_data.close_price
    IN  [ symbol |-> symbol,
          direction |-> direction,
          entry_price |-> entry_price,
          entry_time |-> entry_data.datetime,
          target_price |-> calculate_target_price(entry_price, direction, target_pct),
          break_even_price |->
              IF direction = "LONG"
              THEN entry_price + (entry_price * break_even_pct) \div PctUnit
              ELSE entry_price - (entry_price * break_even_pct) \div PctUnit,
          confidence |-> confidence,
          psc_ratio |-> entry_data.psc_ratio,
          status |-> "PENDING" ]

\* mutant of position_data: the window is the half hour of the forward slice
position_data_whole_slice(trade, price_data) ==
    SelectSeq(price_data,
              LAMBDA bar : /\ bar.datetime >= trade.entry_time
                           /\ bar.datetime <= trade.entry_time + 30)

\* mutant of position_data: the end of the hold window is not looked at
position_data_unbounded(trade, price_data) ==
    SelectSeq(price_data, LAMBDA bar : bar.datetime >= trade.entry_time)

\* price_data[(index >= entry_time) & (index <= exit_time)]
position_data(trade, price_data) ==
    SelectSeq(price_data,
              LAMBDA bar : /\ bar.datetime >= trade.entry_time
                           /\ bar.datetime <= trade.entry_time + max_position_minutes)

\* the bars of the position whose favourable extreme reaches the target
target_bars(trade, bars) ==
    IF trade.direction = "LONG"
    THEN SelectSeq(bars, LAMBDA bar : bar.high_price >= trade.target_price)
    ELSE SelectSeq(bars, LAMBDA bar : bar.low_price <= trade.target_price)

\* mutant of strictly_above: >= for >
at_or_above(num, den, pct) == num * PctUnit >= pct * den

\* num / den > pct (den > 0)
strictly_above(num, den, pct) == num * PctUnit > pct * den

\* mutant of exit_bar: the last bar that reaches the target, not the first
exit_bar_last_hit(trade, bars) ==
    LET hits == target_bars(trade, bars)
    IN  IF hits # << >> THEN hits[Len(hits)] ELSE bars[Len(bars)]

\* the bar the position is closed in: .index[0] of the bars that reach the
\* target, else .iloc[-1]
exit_bar(trade, bars) ==
    LET hits == target_bars(trade, bars)
    IN  IF hits # << >> THEN hits[1] ELSE bars[Len(bars)]

\* mutant of no_data_outcome: absence of data is recorded as a completed loss
no_data_outcome_as_loss(trade) ==
    [ status |-> "COMPLETED",
      exit_price |-> trade.entry_price,
      exit_time |-> trade.entry_time,
      profit_pct |-> [num |-> 0, den |-> 1],
      hit_target |-> FALSE,
      success |-> FALSE,
      duration_minutes |-> 0 ]

\* the fields evaluate_trade_outcome sets when the position has no bar
no_data_outcome(trade) ==
    [ status |-> "NO_DATA",
      exit_price |-> trade.entry_price,
      exit_time |-> trade.entry_time,
      profit_pct |-> [num |-> 0, den |-> 1],
      hit_target |-> FALSE,
      duration_minutes |-> 0 ]

\* exit_price: the target when it is reached, else the close of the last bar
exit_price_of(trade, bars) ==
    IF target_bars(trade, bars) # << >> THEN trade.target_price
    ELSE bars[Len(bars)].close_price

\* evaluate_trade_outcome: the trade dict after trade.update(...); profit_pct is
\* kept as the fraction num / den
evaluate_trade_outcome(trade, price_data) ==
    LET bars == position_data(trade, price_data)
        exit_price == exit_price_of(trade, bars)
        num == IF trade.direction = "LONG"
               THEN exit_price - trade.entry_price
               ELSE trade.entry_price - exit_price
        den == trade.entry_price
    IN  IF bars = << >> THEN update(trade, no_data_outcome(trade))
        ELSE update(trade,
                    [ status |-> "COMPLETED",
                      exit_price |-> exit_price,
                      exit_time |-> exit_bar(trade, bars).datetime,
                      profit_pct |-> [num |-> num, den |-> den],
                      hit_target |-> target_bars(trade, bars) # << >>,
                      success |-> strictly_above(num, den, min_profit_pct),
                      duration_minutes |->
                          exit_bar(trade, bars).datetime - trade.entry_time ])

---------------------------------------------------------------------------
(* Calls of the backtester's functions, one trade at a time *)

\* the validator takes no step
validator_unchanged ==
    UNCHANGED << now, predictions_file, paper_trades_file, validation_results_file,
                 active_paper_trades, pc, current_time, trades_to_remove, trade_idx,
                 period_idx, attempts, scanned, pending_retry,
                 failures, passes, reports, restarts >>

\* PSC ratios around each threshold, momenta and volatilities
Ratios == { 0, 79, 80, 81, 89, 90, 91, 100, 124, 125, 126, 149, 150, 200, 300 }
Momenta == { -5, 0, 5 }
Volatilities == { 0, 3 }

\* entry bars: at minute 5, with two entry prices
EntryPrices == { 100000, 200000 }
EntryData ==
    { [close_price |-> price, datetime |-> 5, psc_ratio |-> 125] :
      price \in EntryPrices }

\* confidences of [0, 1], those at which the band changes among them
Confidences == { 0, 59, 60, 80, 100 }

\* bars, as (high, low, close) for an entry price of 100000: a rise, a close
\* 0.12% above, a close 0.13% above, a fall, a close 0.12% below
BarShapes ==
    { << 100300, 99950, 100200 >>, << 100140, 100000, 100120 >>,
      << 100140, 100000, 100130 >>, << 100050, 99700, 99800 >>,
      << 100000, 99860, 99880 >> }

\* times of bars: before the entry, within the hold window, after it
BarTimes == { 0, 5, 10, 15, 16 }

Bars(entry_price) ==
    { [ datetime |-> t,
        high_price |-> shape[1] * (entry_price \div 100000),
        low_price |-> shape[2] * (entry_price \div 100000),
        close_price |-> shape[3] * (entry_price \div 100000) ] :
      t \in BarTimes, shape \in BarShapes }

\* the price series of at most n bars, in ascending order of time (ORDER BY
\* timestamp ASC)
RECURSIVE PriceData(_, _)
PriceData(entry_price, n) ==
    IF n = 0 THEN { << >> }
    ELSE PriceData(entry_price, n - 1)
         \cup UNION { { Append(path, bar) :
                          bar \in { b \in Bars(entry_price) :
                                      \A k \in 1..(n - 1) : path[k].datetime < b.datetime } } :
                      path \in { q \in PriceData(entry_price, n - 1) : Len(q) = n - 1 } }

\* run_backtest calls determine_trade_direction for a sampled bar
call_determine_trade_direction(psc_ratio, price_momentum, volatility) ==
    /\ returned.op = "__init__"
    /\ returned' = [ op |-> "determine_trade_direction",
                     value |-> << determine_trade_direction(psc_ratio, price_momentum,
                                                            volatility) >>,
                     psc_ratio |-> psc_ratio,
                     price_momentum |-> price_momentum,
                     volatility |-> volatility ]
    /\ validator_unchanged
    /\ UNCHANGED << trades, tasks, frame,
                    config >>

\* simulate_trade, called when the direction is not NEUTRAL, with the value its
\* call of np.random.uniform returns
call_simulate_trade(entry_data, direction, confidence, target_pct) ==
    /\ returned.op = "determine_trade_direction"
    /\ direction = returned.value[1]
    /\ direction # "NEUTRAL"
    /\ returned' = [ op |-> "simulate_trade",
                     value |-> << simulate_trade("BTCUSDT", entry_data, direction,
                                                 confidence, target_pct) >>,
                     target_pct |-> target_pct ]
    /\ validator_unchanged
    /\ UNCHANGED << trades, tasks, frame,
                    config >>

\* evaluate_trade_outcome of the trade simulate_trade has returned
call_evaluate_trade_outcome ==
    /\ returned.op = "simulate_trade"
    /\ \E price_data \in PriceData(returned.value[1].entry_price, MaxBars) :
           returned' = [ op |-> "evaluate_trade_outcome",
                         value |-> << evaluate_trade_outcome(returned.value[1],
                                                             price_data) >>,
                         trade |-> returned.value[1],
                         price_data |-> price_data,
                         target_pct |-> returned.target_pct ]
    /\ validator_unchanged
    /\ UNCHANGED << trades, tasks, frame,
                    config >>

NextBacktest ==
    \/ \E psc_ratio \in Ratios, price_momentum \in Momenta, volatility \in Volatilities :
           call_determine_trade_direction(psc_ratio, price_momentum, volatility)
    \/ \E entry_data \in EntryData, direction \in { "LONG", "SHORT", "NEUTRAL" },
          confidence \in Confidences :
           \E target_pct \in uniform(target_band(confidence).low,
                                     target_band(confidence).high) :
               call_simulate_trade(entry_data, direction, confidence, target_pct)
    \/ call_evaluate_trade_outcome

SpecBacktest == Init /\ [][NextBacktest]_vars

---------------------------------------------------------------------------
(* The backtester's analysis of self.trades *)

\* trade.get('success', False) == True, and df_trades['success'] == True for the
\* row of the trade (NaN, which is not True, when the trade has no such key)
is_success(trade) == "success" \in DOMAIN trade /\ trade.success = TRUE

\* len([t for t in trades if t.get('success', False)])
successful_trades(list) == Len(SelectSeq(list, is_success))

\* len([t for t in trades if t['direction'] == direction])
direction_trades(list, direction) ==
    Len(SelectSeq(list, LAMBDA trade : trade.direction = direction))

\* analyze_results: the overall statistics it computes.  With no trade it
\* returns at once; df_trades['success'] raises KeyError when no trade has the
\* key, and nothing catches it
analyze_results(list) ==
    IF list = << >> THEN [error |-> "No trades to analyze"]
    ELSE IF \A k \in 1..Len(list) : "success" \notin DOMAIN list[k]
    THEN [error |-> "KeyError"]
    ELSE [ total_trades |-> Len(list),
           successful_trades |-> successful_trades(list),
           success_rate |-> rate(successful_trades(list), Len(list)) ]

\* create_training_data: one sample for each COMPLETED trade
create_training_data(list) ==
    LET completed == SelectSeq(list, LAMBDA trade : trade.status = "COMPLETED")
    IN  [ k \in 1..Len(completed) |->
            [ labels |-> [ success |-> completed[k].success,
                           profit_pct |-> completed[k].profit_pct,
                           hit_target |-> completed[k].hit_target,
                           duration_minutes |-> completed[k].duration_minutes ],
              trade |-> completed[k] ] ]

\* save_training_results: the metadata it writes; the division raises
\* ZeroDivisionError for an empty list
save_training_results(list) ==
    IF list = << >> THEN [error |-> "ZeroDivisionError"]
    ELSE [ total_trades |-> Len(list),
           long_trades |-> direction_trades(list, "LONG"),
           short_trades |-> direction_trades(list, "SHORT"),
           success_rate |-> rate(successful_trades(list), Len(list)) ]

\* outcomes of evaluate_trade_outcome: of a LONG and of a SHORT trade over the
\* series of at most one bar
EvaluatedTrades ==
    { evaluate_trade_outcome(
          simulate_trade("BTCUSDT", entry_data, direction, 80, 150), price_data) :
      entry_data \in { e \in EntryData : e.close_price = 100000 },
      direction \in { "LONG", "SHORT" },
      price_data \in { q \in PriceData(100000, 1) :
                         \A k \in 1..Len(q) : q[k].datetime \in { 5, 16 } } }

\* the lists of at most n evaluated trades
RECURSIVE TradeLists(_)
TradeLists(n) ==
    IF n = 0 THEN { << >> }
    ELSE TradeLists(n - 1)
         \cup { Append(list, trade) :
                  list \in { l \in TradeLists(n - 1) : Len(l) = n - 1 },
                  trade \in EvaluatedTrades }

InitAnalyze ==
    /\ now = 0
    /\ predictions_file = << predictions_header >>
    /\ paper_trades_file = << paper_trades_header >>
    /\ validation_results_file = << validation_results_header >>
    /\ active_paper_trades = << >>
    /\ pc = "idle"
    /\ current_time = 0
    /\ trades_to_remove = << >>
    /\ trade_idx = 1
    /\ period_idx = 1
    /\ returned = [op |-> "__init__", value |-> << >>]
    /\ attempts = << >>
    /\ scanned = << >>
    /\ pending_retry = {}
    /\ failures = 0
    /\ passes = 0
    /\ reports = 0
    /\ restarts = 0
    /\ trades \in TradeLists(MaxTrades)
    /\ tasks = no_tasks
    /\ frame = no_frame
    /\ config = get_default_config

call_analyze_results ==
    /\ returned' = [op |-> "analyze_results", value |-> << analyze_results(trades) >>]
    /\ validator_unchanged
    /\ UNCHANGED << trades, tasks, frame,
                    config >>

call_create_training_data ==
    /\ returned' = [op |-> "create_training_data",
                    value |-> << create_training_data(trades) >>]
    /\ validator_unchanged
    /\ UNCHANGED << trades, tasks, frame,
                    config >>

call_save_training_results ==
    /\ returned' = [op |-> "save_training_results",
                    value |-> << save_training_results(trades) >>]
    /\ validator_unchanged
    /\ UNCHANGED << trades, tasks, frame,
                    config >>

NextAnalyze ==
    \/ call_analyze_results
    \/ call_create_training_data
    \/ call_save_training_results

SpecAnalyze == InitAnalyze /\ [][NextAnalyze]_vars

---------------------------------------------------------------------------
(* Properties of the live validation tracker *)

\* the data rows of the three files
prediction_rows == DictReader(predictions_file)
paper_trade_rows == DictReader(paper_trades_file)
validation_rows == DictReader(validation_results_file)

\* a validate_predictions pass has just returned
PassReturned == pc = "idle" /\ returned.op = "validate_predictions"

\* a step of a validate_predictions pass: its call, or the end of one of its fetches
PassStep == passes' = passes + 1 \/ Len(attempts') = Len(attempts) + 1

\* the minutes of the horizon that has this name
MinutesOf(name) ==
    IF name = "5min" THEN 5 ELSE IF name = "10min" THEN 10
    ELSE IF name = "15min" THEN 15 ELSE 30

\* the fetches of the current (else the last) pass that wrote a row, and their rows
WrittenAttempts == SelectSeq(attempts, LAMBDA a : a.ok)
PassRows ==
    SubSeq(validation_rows, Len(validation_rows) - Len(WrittenAttempts) + 1,
           Len(validation_rows))

\* the fetches of the current (else the last) pass for the trade at position i
AttemptsOf(i) == SelectSeq(attempts, LAMBDA a : a.idx = i)

\* C1: the validation-results log holds at most one row per (prediction_id,
\* validation_period) pair: a horizon recorded for an entry is never recorded again
\* by a later pass.  (Stated for runs in which the logged predictions have
\* distinct ids, so that two rows of one pair are rows of one entry.)
C1_OneRowPerPair ==
    (\A i, j \in 1..Len(prediction_rows) :
         i # j => prediction_rows[i].prediction_id # prediction_rows[j].prediction_id)
    => \A i, j \in 1..Len(validation_rows) :
           i # j => \/ validation_rows[i].prediction_id # validation_rows[j].prediction_id
                    \/ validation_rows[i].validation_period
                           # validation_rows[j].validation_period

\* the trades at position i of the list the pass iterated whose window, at the
\* time of the pass, is [from, to) minutes after their entry
InWindow(i, from, to) ==
    /\ current_time >= scanned[i].entry_time + from * Minute
    /\ current_time < scanned[i].entry_time + to * Minute

\* C2: a pass running at time t validates horizon h of an entry, and writes a row
\* for it, only if t >= entry_time + h minutes; and a pass that runs at least 5
\* and less than 10 minutes after an entry was logged makes one fetch for it,
\* for '5min', and writes exactly that one row if the fetch succeeds.
C2_OnlyDueHorizons ==
    /\ \A k \in 1..Len(attempts) :
           current_time >= attempts[k].entry_time + MinutesOf(attempts[k].period) * Minute
    /\ Len(WrittenAttempts) <= Len(validation_rows)
    /\ \A k \in 1..Len(WrittenAttempts) :
           /\ PassRows[k].prediction_id = WrittenAttempts[k].prediction_id
           /\ PassRows[k].entry_time = WrittenAttempts[k].entry_time
           /\ PassRows[k].validation_period = WrittenAttempts[k].period
           /\ current_time >= PassRows[k].entry_time
                                  + MinutesOf(PassRows[k].validation_period) * Minute
    /\ PassReturned =>
           \A i \in 1..Len(scanned) :
               InWindow(i, 5, 10) =>
                   /\ Len(AttemptsOf(i)) = 1
                   /\ AttemptsOf(i)[1].period = "5min"
                   /\ AttemptsOf(i)[1].fetched => AttemptsOf(i)[1].ok

\* C2 witness: a pass has returned that ran between the 5-minute and the
\* 10-minute deadline of an entry and wrote its '5min' row
C2_Witness ==
    /\ PassReturned
    /\ \E i \in 1..Len(scanned) :
           /\ InWindow(i, 5, 10)
           /\ Len(AttemptsOf(i)) = 1
           /\ AttemptsOf(i)[1].ok
    /\ Len(PassRows) >= 1

\* the number of elements of the list that equal x
CountOf(list, x) == Cardinality({ k \in 1..Len(list) : list[k] = x })

\* C3: a pass whose time is earlier than entry_time + 30 minutes neither removes
\* the entry from the active set nor changes its status from ACTIVE.
C3_KeptWhilePending ==
    [][ PassStep =>
          \A k \in 1..Len(active_paper_trades) :
              LET trade == active_paper_trades[k]
              IN  current_time' < trade.entry_time + 30 * Minute =>
                      /\ CountOf(active_paper_trades', trade)
                             >= CountOf(active_paper_trades, trade)
                      /\ trade.status = "ACTIVE" ]_vars

\* C3 witness: a pass has returned that evicted one entry and kept another, which
\* had a horizon due and is still ACTIVE
C3_Witness ==
    /\ PassReturned
    /\ trades_to_remove # << >>
    /\ \E k \in 1..Len(active_paper_trades) :
           /\ active_paper_trades[k].status = "ACTIVE"
           /\ current_time >= active_paper_trades[k].entry_time + 15 * Minute
           /\ current_time < active_paper_trades[k].entry_time + 30 * Minute

\* C4: when a pass whose time is at or after entry_time + 30 minutes returns, the
\* entry is marked COMPLETED and is no longer in the active set, whether or not
\* the fetches for it succeeded.
C4_EvictedAtMaxHorizon ==
    PassReturned =>
        /\ \A k \in 1..Len(active_paper_trades) :
               current_time < active_paper_trades[k].entry_time + 30 * Minute
        /\ \A i \in 1..Len(scanned) :
               current_time >= scanned[i].entry_time + 30 * Minute =>
                   /\ scanned[i].status = "COMPLETED"
                   /\ scanned[i] \in Range(trades_to_remove)
                   /\ scanned[i] \notin Range(active_paper_trades)

\* C4 witness: a pass has returned that evicted an entry although a fetch for it
\* had failed in that pass
C4_Witness ==
    /\ PassReturned
    /\ \E k \in 1..Len(attempts) :
           /\ ~attempts[k].fetched
           /\ current_time >= attempts[k].entry_time + 30 * Minute
           /\ scanned[attempts[k].idx].status = "COMPLETED"
           /\ scanned[attempts[k].idx] \notin Range(active_paper_trades)

\* C5: after load_active_paper_trades has run at time t, the active set holds no
\* entry with t >= entry_time + 30 minutes, although the persisted rows of such
\* entries have status ACTIVE.
C5_NoExpiredEntryLoaded ==
    [][ restarts' = restarts + 1 =>
          \A k \in 1..Len(active_paper_trades') :
              now' < active_paper_trades'[k].entry_time + 30 * Minute ]_vars

\* C5 witness: the program has just been restarted, a persisted row with status
\* ACTIVE is past its last deadline, and its entry is not in the active set
C5_Witness ==
    /\ returned.op = "__init__"
    /\ restarts > 0
    /\ \E r \in 1..Len(paper_trade_rows) :
           /\ paper_trade_rows[r].status = "ACTIVE"
           /\ now >= paper_trade_rows[r].entry_time + 30 * Minute
           /\ \A k \in 1..Len(active_paper_trades) :
                  active_paper_trades[k].prediction_id # paper_trade_rows[r].prediction_id

\* a fetch of the current (else the last) pass for this entry and horizon
Attempted(f) ==
    \E k \in 1..Len(attempts) :
        /\ attempts[k].prediction_id = f.prediction_id
        /\ attempts[k].entry_time = f.entry_time
        /\ attempts[k].period = f.period

\* C6 as stated: a fetch that failed for a due horizon in one pass is made again
\* in the next pass, for every horizon, the maximum one included.
C6_EveryFailureRetried ==
    PassReturned => \A f \in pending_retry : Attempted(f)

\* C6 as amended: a fetch that failed in a pass that ran before the entry's last
\* deadline (so that the pass left the entry in the active set) is made again in
\* the next pass, and that pass writes the row if its fetch succeeds.
C6_FailureRetriedWhileActive ==
    PassReturned =>
        \A f \in pending_retry :
            ~f.evicted =>
                \E k \in 1..Len(attempts) :
                    /\ attempts[k].prediction_id = f.prediction_id
                    /\ attempts[k].entry_time = f.entry_time
                    /\ attempts[k].period = f.period
                    /\ attempts[k].fetched => attempts[k].ok

\* C6 witness: a fetch failed in one pass, and the next pass has made it again,
\* with success, and has written the row
C6_Witness ==
    /\ PassReturned
    /\ \E f \in pending_retry :
           /\ ~f.evicted
           /\ \E k \in 1..Len(WrittenAttempts) :
                  /\ WrittenAttempts[k].prediction_id = f.prediction_id
                  /\ WrittenAttempts[k].entry_time = f.entry_time
                  /\ WrittenAttempts[k].period = f.period
                  /\ PassRows[k].validation_period = f.period
                  /\ PassRows[k].prediction_id = f.prediction_id

\* C7: a fetch that fails for one entry does not end the pass: when the pass
\* returns, every entry of the list has had a fetch for each of its due horizons
\* and its completion check (evicted if and only if its last deadline has passed).
C7_FailureDoesNotAbortPass ==
    PassReturned =>
        \A i \in 1..Len(scanned) :
            /\ \A p \in { 5, 10, 15, 30 } :
                   current_time >= scanned[i].entry_time + p * Minute =>
                       \E k \in 1..Len(attempts) :
                           /\ attempts[k].idx = i
                           /\ MinutesOf(attempts[k].period) = p
                           /\ attempts[k].fetched => attempts[k].ok
            /\ IF current_time >= scanned[i].entry_time + 30 * Minute
               THEN scanned[i].status = "COMPLETED"
                    /\ scanned[i] \notin Range(active_paper_trades)
               ELSE scanned[i].status = "ACTIVE"
                    /\ scanned[i] \in Range(active_paper_trades)

\* C7 witness: a pass has returned in which a fetch failed for one entry and a
\* later entry of the list had its horizon validated and its row written
C7_Witness ==
    /\ PassReturned
    /\ \E j, k \in 1..Len(attempts) :
           /\ ~attempts[j].fetched
           /\ attempts[k].ok
           /\ attempts[k].idx > attempts[j].idx

\* a step in which log_prediction wrote or returned something
LogStep ==
    \/ predictions_file' # predictions_file
    \/ paper_trades_file' # paper_trades_file
    \/ returned' # returned /\ returned'.op = "log_prediction"

\* C8: a log_prediction that returns an id appends one row to the predictions
\* log and one to the paper-trade log and adds one entry to the active set,
\* with status ACTIVE, the time of the call as entry_time and every horizon
\* pending; the entries already in the active set stay as they were.
C8_LogPredictionEffect ==
    [][ (LogStep /\ returned'.value # << >>) =>
          LET id == returned'.value[1]
              entry == active_paper_trades'[Len(active_paper_trades')]
          IN  /\ Len(predictions_file') = Len(predictions_file) + 1
              /\ IsPrefix(predictions_file, predictions_file')
              /\ predictions_file'[Len(predictions_file')].prediction_id = id
              /\ Len(paper_trades_file') = Len(paper_trades_file) + 1
              /\ IsPrefix(paper_trades_file, paper_trades_file')
              /\ paper_trades_file'[Len(paper_trades_file')].prediction_id = id
              /\ Len(active_paper_trades') = Len(active_paper_trades) + 1
              /\ IsPrefix(active_paper_trades, active_paper_trades')
              /\ entry.prediction_id = id
              /\ entry.status = "ACTIVE"
              /\ entry.entry_time = now
              /\ entry.validation_periods = << "5min", "10min", "15min", "30min" >>
              /\ validation_results_file' = validation_results_file ]_vars

\* C8 witness: log_prediction has just returned an id with another entry
\* already in the active set
C8_Witness ==
    /\ returned.op = "log_prediction"
    /\ returned.value # << >>
    /\ Len(active_paper_trades) = 2
    /\ active_paper_trades[2].prediction_id = returned.value[1]
    /\ active_paper_trades[1].entry_time < active_paper_trades[2].entry_time

\* C9: the three logs are append-only: in every step, whatever the operation,
\* the contents of each log before the step are a prefix of its contents after.
C9_AppendOnly ==
    [][ /\ IsPrefix(predictions_file, predictions_file')
        /\ IsPrefix(paper_trades_file, paper_trades_file')
        /\ IsPrefix(validation_results_file, validation_results_file') ]_vars

\* C9 witness: the program has been restarted with rows in all three logs
C9_Witness ==
    /\ returned.op = "__init__"
    /\ restarts > 0
    /\ Len(prediction_rows) > 0
    /\ Len(paper_trade_rows) > 0
    /\ Len(validation_rows) > 0

\* C10: any two predictions logged through log_prediction receive distinct
\* prediction ids, also when logged for the same coin and direction within the
\* same clock second.
C10_DistinctIds ==
    \A i, j \in 1..Len(prediction_rows) :
        i # j => prediction_rows[i].prediction_id # prediction_rows[j].prediction_id

---------------------------------------------------------------------------
(* Reports over a validation-results log found on disk *)

\* rows validate_trade_at_period wrote by the time of the first report: for
\* entries logged at 0 and at one interval, the horizons that have ended
ReportRows ==
    LET trade(inp, t) == new_paper_trade(make_prediction_id(inp.coin, t, inp.direction),
                                         inp, t)
        row(inp, t, p) ==
            LET exit == t + timedelta(validation_periods[p].minutes)
            IN  validation_row(trade(inp, t), validation_periods[p],
                               exchange_price(inp.coin, exit), exit)
    IN  { row(inp, c[1], c[2]) :
            inp \in { i \in LogInputs : i.numeric },
            c \in { << 0, 1 >>, << 0, 2 >>, << timedelta(interval_minutes), 1 >> } }

\* the logs of at most n rows, in the order they were written
RECURSIVE ReportFiles(_)
ReportFiles(n) ==
    IF n = 0 THEN { << validation_results_header >> }
    ELSE ReportFiles(n - 1)
         \cup { Append(file, row) :
                  file \in { f \in ReportFiles(n - 1) : Len(f) = n },
                  row \in ReportRows }

written_in_order(file) ==
    \A k \in 2..(Len(file) - 1) : file[k].exit_time <= file[k + 1].exit_time

InitReport ==
    /\ now = timedelta(2 * interval_minutes)
    /\ predictions_file = << predictions_header >>
    /\ paper_trades_file = << paper_trades_header >>
    /\ validation_results_file \in { f \in ReportFiles(MaxReportRows) : written_in_order(f) }
    /\ active_paper_trades = << >>
    /\ pc = "idle"
    /\ current_time = 0
    /\ trades_to_remove = << >>
    /\ trade_idx = 1
    /\ period_idx = 1
    /\ returned = [op |-> "__init__", value |-> << >>]
    /\ attempts = << >>
    /\ scanned = << >>
    /\ pending_retry = {}
    /\ failures = 0
    /\ passes = 0
    /\ reports = 0
    /\ restarts = 0
    /\ trades = << >>
    /\ tasks = no_tasks
    /\ frame = no_frame
    /\ config = get_default_config

NextReport ==
    \/ \E days \in ReportWindows : get_prediction_accuracy_report(days)
    \/ sleep

SpecReport == InitReport /\ [][NextReport]_vars

---------------------------------------------------------------------------
(* Properties of the reload *)

\* every cell the loader parses holds a date or a number
well_formed(row) ==
    /\ ~parse_raises(row.entry_time)
    /\ ~parse_raises(row.entry_price)
    /\ ~parse_raises(row.target_price)
    /\ ~parse_raises(row.confidence)

\* the constructor has run over the log found on disk
Reloaded == returned.op = "__init__" /\ restarts > 0

\* C11: on reload a malformed row of the paper-trade log is skipped: every
\* well-formed ACTIVE row that is still within its window is loaded into the
\* active set, also when a malformed row comes before it.
C11_MalformedRowSkipped ==
    Reloaded =>
        \A r \in 1..Len(paper_trade_rows) :
            ( /\ well_formed(paper_trade_rows[r])
              /\ paper_trade_rows[r].status = "ACTIVE"
              /\ now < fromisoformat(paper_trade_rows[r].entry_time)
                         + timedelta(max_period.minutes) )
            => trade_of_row(paper_trade_rows[r]) \in Range(active_paper_trades)

---------------------------------------------------------------------------
(* Properties of the accuracy report *)

\* a step that is a call of get_prediction_accuracy_report
ReportStep == reports' = reports + 1

\* the call changes neither the logs nor the active set
ReportReadOnly ==
    /\ predictions_file' = predictions_file
    /\ paper_trades_file' = paper_trades_file
    /\ validation_results_file' = validation_results_file
    /\ active_paper_trades' = active_paper_trades

\* C12 as stated: get_prediction_accuracy_report is read-only and idempotent: a
\* call with the same days argument as the call before it, over unchanged
\* validation rows, returns the same aggregates.
C12_ReportIdempotent ==
    [][ ReportStep =>
          /\ ReportReadOnly
          /\ returned'.again => returned'.value = returned.value ]_vars

\* C12 as amended: the call is read-only, and a call with the same days argument
\* as the call before it, over unchanged validation rows, returns the same
\* aggregates if the trailing window holds the same rows at both calls (as it
\* does when the clock has not moved between them).  The window only loses
\* rows as the clock moves, so it holds the same rows when it holds as many.
C12_ReportIdempotentSameWindow ==
    [][ ReportStep =>
          /\ ReportReadOnly
          /\ (returned'.again /\ returned'.window = returned.window)
             => returned'.value = returned.value ]_vars

\* C12 witness: a call has repeated the call before it, at a later time, and
\* has returned aggregates over rows
C12_Witness ==
    /\ returned.op = "get_prediction_accuracy_report"
    /\ returned.again
    /\ "total_predictions" \in DOMAIN returned.value[1]
    /\ returned.value[1].total_predictions > 1
    /\ now > timedelta(2 * interval_minutes)

---------------------------------------------------------------------------
(* Properties of the backtester's functions *)

\* the last call was determine_trade_direction, simulate_trade,
\* evaluate_trade_outcome
Determined == returned.op = "determine_trade_direction"
Simulated == returned.op = "simulate_trade"
Evaluated == returned.op = "evaluate_trade_outcome"

\* C13: determine_trade_direction returns LONG for every ratio >= 1.25, SHORT for
\* every ratio <= 0.9 and NEUTRAL for every ratio strictly between, the two
\* thresholds themselves included (1.25 is LONG, 0.9 is SHORT), whatever the
\* momentum and the volatility.
C13_DirectionByRatio ==
    Determined =>
        returned.value[1] = IF returned.psc_ratio >= 125 THEN "LONG"
                            ELSE IF returned.psc_ratio <= 90 THEN "SHORT"
                            ELSE "NEUTRAL"

\* C13 witness: the ratio 0.9 itself, with a momentum, has been classified SHORT
C13_Witness ==
    /\ Determined
    /\ returned.psc_ratio = 90
    /\ returned.price_momentum # 0
    /\ returned.value[1] = "SHORT"

\* C14: the target of a simulated trade lies farther from the entry price than
\* entry_price * 0.1%, above the entry for LONG and below it for SHORT, for
\* every confidence and every value drawn from the band.
C14_TargetBeyondBreakEven ==
    Simulated =>
        LET trade == returned.value[1]
            distance == IF trade.direction = "LONG"
                        THEN trade.target_price - trade.entry_price
                        ELSE trade.entry_price - trade.target_price
        IN  distance * 1000 > trade.entry_price

\* C14 witness: a SHORT trade of confidence 0 with the lowest value of the
\* lowest band
C14_Witness ==
    /\ Simulated
    /\ returned.value[1].confidence = 0
    /\ returned.value[1].direction = "SHORT"
    /\ returned.target_pct = 120

\* the bars of the evaluated series within [entry_time, entry_time + 10 min]
InHold(bar) ==
    /\ bar.datetime >= returned.trade.entry_time
    /\ bar.datetime <= returned.trade.entry_time + 10
HoldBars == SelectSeq(returned.price_data, InHold)

\* the bar's favourable extreme crosses the target of the evaluated trade
Crosses(bar) ==
    IF returned.trade.direction = "LONG"
    THEN bar.high_price >= returned.trade.target_price
    ELSE bar.low_price <= returned.trade.target_price
Crossed == \E k \in 1..Len(HoldBars) : Crosses(HoldBars[k])

\* C15: with no bar in [entry_time, entry_time + 10 min] the outcome is NO_DATA,
\* profit 0, no target hit, duration 0 and exit_price = entry_price, for either
\* direction and any target.
C15_NoDataOutcome ==
    (Evaluated /\ HoldBars = << >>) =>
        LET trade == returned.value[1]
        IN  /\ trade.status = "NO_DATA"
            /\ trade.profit_pct.num = 0
            /\ trade.hit_target = FALSE
            /\ trade.duration_minutes = 0
            /\ trade.exit_price = trade.entry_price

\* C15 witness: a series with bars, all of them outside the hold window, one of
\* them beyond the target, has been evaluated
C15_Witness ==
    /\ Evaluated
    /\ HoldBars = << >>
    /\ Len(returned.price_data) = 2
    /\ \E k \in 1..Len(returned.price_data) : Crosses(returned.price_data[k])
    /\ returned.value[1].status = "NO_DATA"

\* the trades of self.trades that have an outcome, and the successes among them
Decided == SelectSeq(trades, LAMBDA trade : trade.status # "NO_DATA")
Won == SelectSeq(Decided, LAMBDA trade : trade.success = TRUE)

\* C16: a NO_DATA trade is counted neither as a win nor as a loss: the success
\* rates of analyze_results and of save_training_results have the successes
\* over the trades that are not NO_DATA, and create_training_data makes no
\* sample of a NO_DATA trade.
C16_NoDataNotCounted ==
    /\ ( /\ returned.op \in { "analyze_results", "save_training_results" }
         /\ Decided # << >> )
       => /\ "success_rate" \in DOMAIN returned.value[1]
          /\ returned.value[1].success_rate.num * Len(Decided)
             = Len(Won) * 100 * returned.value[1].success_rate.den
    /\ returned.op = "create_training_data"
       => /\ Len(returned.value[1]) = Len(Decided)
          /\ \A k \in 1..Len(returned.value[1]) :
                 returned.value[1][k].trade.status # "NO_DATA"

\* C17: if some bar of the hold window crosses the target, the outcome has
\* hit_target True, exit_price equal to target_price and exit_time equal to the
\* time of the first such bar.
C17_ExitAtFirstCrossing ==
    (Evaluated /\ Crossed) =>
        LET trade == returned.value[1]
        IN  /\ trade.hit_target = TRUE
            /\ trade.exit_price = returned.trade.target_price
            /\ \E k \in 1..Len(HoldBars) :
                   /\ Crosses(HoldBars[k])
                   /\ trade.exit_time = HoldBars[k].datetime
                   /\ \A j \in 1..(k - 1) : ~Crosses(HoldBars[j])

\* C17 witness: two bars of the hold window cross the target, with a close
\* different from it, and the exit is at the first
C17_Witness ==
    /\ Evaluated
    /\ Len(HoldBars) = 2
    /\ Crosses(HoldBars[1]) /\ Crosses(HoldBars[2])
    /\ HoldBars[1].close_price # returned.trade.target_price
    /\ returned.value[1].exit_time = HoldBars[1].datetime

\* C18: if no bar of the hold window crosses the target, the outcome has
\* hit_target False, and exit_price and exit_time are the close and the time of
\* the last bar inside the hold window.
C18_ExitAtLastClose ==
    (Evaluated /\ HoldBars # << >> /\ ~Crossed) =>
        LET trade == returned.value[1]
        IN  /\ trade.hit_target = FALSE
            /\ trade.exit_price = HoldBars[Len(HoldBars)].close_price
            /\ trade.exit_time = HoldBars[Len(HoldBars)].datetime

\* C18 witness: no bar of the hold window crosses the target, and the series
\* goes on after the window with a bar that does
C18_Witness ==
    /\ Evaluated
    /\ HoldBars # << >>
    /\ ~Crossed
    /\ Len(returned.price_data) > Len(HoldBars)
    /\ Crosses(returned.price_data[Len(returned.price_data)])
    /\ returned.price_data[Len(returned.price_data)].datetime > returned.trade.entry_time
    /\ returned.value[1].hit_target = FALSE

\* C19: for every trade whose path crosses the target within the hold window
\* the profit equals the sampled target percentage and success is True, for
\* every band and every percentage the band can give, 0.0012 included.
C19_CrossingIsSuccess ==
    (Evaluated /\ Crossed) =>
        LET trade == returned.value[1]
        IN  /\ trade.profit_pct.num * PctUnit = returned.target_pct * trade.profit_pct.den
            /\ trade.success = TRUE

\* C20: profit_pct is (exit - entry) / entry for LONG and (entry - exit) / entry
\* for SHORT, and success is True exactly when profit_pct > 0.0012: a profit
\* equal to 0.0012 is no success.
C20_ProfitAndStrictSuccess ==
    (Evaluated /\ returned.value[1].status = "COMPLETED") =>
        LET trade == returned.value[1]
            change == IF trade.direction = "LONG"
                      THEN trade.exit_price - trade.entry_price
                      ELSE trade.entry_price - trade.exit_price
        IN  /\ trade.profit_pct.num * trade.entry_price = change * trade.profit_pct.den
            /\ trade.success = (change * PctUnit > 120 * trade.entry_price)

\* C20 witness: a SHORT trade has closed, without reaching its target, at a
\* profit of 0.0012, and is no success
C20_Witness ==
    /\ Evaluated
    /\ returned.value[1].status = "COMPLETED"
    /\ returned.value[1].direction = "SHORT"
    /\ returned.value[1].hit_target = FALSE
    /\ (returned.value[1].entry_price - returned.value[1].exit_price) * PctUnit
       = 120 * returned.value[1].entry_price
    /\ returned.value[1].success = FALSE

---------------------------------------------------------------------------
(* The live and the historical evaluator over one position *)

\* exits, as the change from the entry price in units of 1e-5: a loss, none,
\* and the values around the break-even, min-profit, good and excellent
\* thresholds
ExitChanges == { -200, 0, 99, 100, 119, 120, 121, 199, 200, 499, 500, 600 }

\* the price that lies change * 1e-5 on the favourable side of the entry price
price_at(entry_price, direction, change) ==
    IF direction = "LONG"
    THEN entry_price + (entry_price * change) \div PctUnit
    ELSE entry_price - (entry_price * change) \div PctUnit

\* the arguments of the log_prediction that opened the live position: the
\* entry and the target of the historical position (an outcome depends on the
\* ratios of the prices only, so both evaluators are given the same numbers)
live_input(entry_data, direction, target_pct) ==
    [ coin |-> "BTC", direction |-> direction, confidence |-> 8000,
      entry_price |-> entry_data.close_price,
      target_price |-> calculate_target_price(entry_data.close_price, direction,
                                              target_pct),
      psc_ratio |-> 1250, ml_prediction_value |-> 7000, numeric |-> TRUE ]

\* the bars of the historical position whose close is the price the live
\* evaluator fetched: a flat bar, and a bar with wicks, within the hold window
exit_bars(entry_data, current_price) ==
    { << [ datetime |-> entry_data.datetime + interval_minutes,
           high_price |-> current_price + wick,
           low_price |-> current_price - wick,
           close_price |-> current_price ] >> : wick \in { 0, 100 } }

\* validate_trade_at_period(trade, period), for a position opened at time 0
\* whose first horizon is due, once its fetch has returned current_price
call_validate_trade_at_period(entry_data, direction, target_pct, current_price) ==
    LET inp == live_input(entry_data, direction, target_pct)
        trade == new_paper_trade(make_prediction_id(inp.coin, 0, direction), inp, 0)
    IN  /\ returned.op = "__init__"
        /\ period_due(now, trade, validation_periods[1])
        /\ validation_results_file' =
               validate_trade_at_period(validation_results_file, trade,
                                        validation_periods[1], current_price, now)
        /\ returned' = [ op |-> "validate_trade_at_period",
                         value |-> << >>,
                         trade |-> trade,
                         entry_data |-> entry_data,
                         target_pct |-> target_pct,
                         current_price |-> current_price ]
        /\ UNCHANGED << now, predictions_file, paper_trades_file,
                        active_paper_trades, pc, current_time, trades_to_remove,
                        trade_idx, period_idx, attempts, scanned, pending_retry,
                        failures, passes, reports, restarts, trades, tasks, frame,
                    config >>

\* evaluate_trade_outcome of the historical position with the same direction,
\* entry and target, over a bar that closes at the price the live one fetched
call_evaluate_same_position ==
    /\ returned.op = "validate_trade_at_period"
    /\ \E price_data \in exit_bars(returned.entry_data, returned.current_price) :
           LET trade == simulate_trade("BTCUSDT", returned.entry_data,
                                       returned.trade.direction, 80,
                                       returned.target_pct)
           IN  returned' = [ op |-> "evaluate_trade_outcome",
                             value |-> << evaluate_trade_outcome(trade, price_data) >>,
                             trade |-> trade,
                             price_data |-> price_data,
                             target_pct |-> returned.target_pct,
                             live |-> validation_results_file[
                                          Len(validation_results_file)],
                             live_trade |-> returned.trade,
                             current_price |-> returned.current_price ]
    /\ validator_unchanged
    /\ UNCHANGED << trades, tasks, frame,
                    config >>

InitOutcome ==
    /\ now = timedelta(interval_minutes)
    /\ predictions_file = << predictions_header >>
    /\ paper_trades_file = << paper_trades_header >>
    /\ validation_results_file = << validation_results_header >>
    /\ active_paper_trades = << >>
    /\ pc = "idle"
    /\ current_time = 0
    /\ trades_to_remove = << >>
    /\ trade_idx = 1
    /\ period_idx = 1
    /\ returned = [op |-> "__init__", value |-> << >>]
    /\ attempts = << >>
    /\ scanned = << >>
    /\ pending_retry = {}
    /\ failures = 0
    /\ passes = 0
    /\ reports = 0
    /\ restarts = 0
    /\ trades = << >>
    /\ tasks = no_tasks
    /\ frame = no_frame
    /\ config = get_default_config

NextOutcome ==
    \/ \E entry_data \in EntryData, direction \in { "LONG", "SHORT" },
          target_pct \in { 120, 150, 199 }, change \in ExitChanges :
           call_validate_trade_at_period(
               entry_data, direction, target_pct,
               price_at(entry_data.close_price, direction, change))
    \/ call_evaluate_same_position

SpecOutcome == InitOutcome /\ [][NextOutcome]_vars

---------------------------------------------------------------------------
(* Properties of the two evaluators *)

\* the live evaluator has just written its row
Validated == returned.op = "validate_trade_at_period"

\* both evaluators have evaluated the position
EvaluatedBoth == Evaluated /\ "live" \in DOMAIN returned

\* the favourable change from entry to exit
favourable_change(direction, entry_price, exit_price) ==
    IF direction = "LONG" THEN exit_price - entry_price ELSE entry_price - exit_price

\* C21: the live evaluator applies the success rule of the historical one: for
\* equal direction, entry price and exit price both give the same success flag,
\* and the live flag is True exactly when the profit is strictly greater than
\* 0.0012 (False at equality).
C21_SameSuccessRule ==
    ( /\ EvaluatedBoth
      /\ returned.value[1].status = "COMPLETED"
      /\ returned.value[1].direction = returned.live.direction
      /\ returned.value[1].entry_price = returned.live_trade.entry_price
      /\ returned.value[1].exit_price = returned.current_price )
    => /\ returned.live.success = returned.value[1].success
       /\ returned.live.success =
              ( favourable_change(returned.live.direction,
                                  returned.live_trade.entry_price,
                                  returned.current_price) * 10000
                > 12 * returned.live_trade.entry_price )

\* the category of the ordered bands for a profit of change / entry_price
BandOf(change, entry_price) ==
    IF change * 1000 >= 5 * entry_price THEN "EXCELLENT"
    ELSE IF change * 1000 >= 2 * entry_price THEN "GOOD"
    ELSE IF change * 10000 >= 12 * entry_price THEN "PROFITABLE"
    ELSE IF change * 1000 >= entry_price THEN "BREAK_EVEN"
    ELSE "LOSS"

\* C22: every evaluated outcome carries exactly one profit category, that of
\* the ordered bands (>= 0.005 EXCELLENT, >= 0.002 GOOD, >= 0.0012 PROFITABLE,
\* >= 0.001 BREAK_EVEN, else LOSS): the validation row of the live evaluator,
\* and the COMPLETED trade record of the historical one.
C22_OneCategoryByBands ==
    /\ Validated =>
           validation_rows[Len(validation_rows)].profit_category
               = BandOf(favourable_change(returned.trade.direction,
                                          returned.trade.entry_price,
                                          returned.current_price),
                        returned.trade.entry_price)
    /\ (Evaluated /\ returned.value[1].status = "COMPLETED") =>
           /\ "profit_category" \in DOMAIN returned.value[1]
           /\ returned.value[1].profit_category
                  = BandOf(favourable_change(returned.value[1].direction,
                                             returned.value[1].entry_price,
                                             returned.value[1].exit_price),
                           returned.value[1].entry_price)

---------------------------------------------------------------------------
(* Properties of the report's counts *)

\* the positions of the validation rows entered at or after t - days, and of
\* those among them that record a success
RowsSince(t, days) ==
    { k \in 1..Len(validation_rows) :
        validation_rows[k].entry_time * days.den
            >= t * days.den - days.num * 24 * 60 * Minute }
WonSince(t, days) == { k \in RowsSince(t, days) : validation_rows[k].success = TRUE }

\* C23: get_prediction_accuracy_report over a trailing window of `days` counts
\* exactly the validation rows whose entry_time is at or after now - days:
\* total_predictions is their number, successful_predictions the number of them
\* with success True, overall_accuracy is 100 * successful / total, with
\* successful <= total; with no row in the window it returns an error value.
C23_ReportCountsWindow ==
    [][ ReportStep =>
          LET report == returned'.value[1]
              total == Cardinality(RowsSince(now, returned'.days))
              successful == Cardinality(WonSince(now, returned'.days))
          IN  IF total = 0
              THEN DOMAIN report = { "error" }
              ELSE /\ "error" \notin DOMAIN report
                   /\ report.total_predictions = total
                   /\ report.successful_predictions = successful
                   /\ report.successful_predictions <= report.total_predictions
                   /\ report.overall_accuracy.num * total
                          = 100 * successful * report.overall_accuracy.den ]_vars

\* C23 witness: a report has counted one row of two, a success, the other row
\* being older than its window
C23_Witness ==
    /\ returned.op = "get_prediction_accuracy_report"
    /\ returned.rows = 2
    /\ returned.window = 1
    /\ "total_predictions" \in DOMAIN returned.value[1]
    /\ returned.value[1].total_predictions = 1
    /\ returned.value[1].successful_predictions = 1
    /\ validation_rows[1].entry_time < validation_rows[2].entry_time

---------------------------------------------------------------------------
(* run_validation_loop, with a second caller of validate_predictions *)

MaxCallerPasses == 1

\* two values of the same dict object: a dict changes in its status only
is_object(a, b) == [a EXCEPT !.status = "ACTIVE"] = [b EXCEPT !.status = "ACTIVE"]

\* trade['status'] = 'COMPLETED': the object, which the list may hold, changes
mark_completed(active, trade) ==
    [ k \in 1..Len(active) |->
        IF is_object(active[k], trade) THEN [active[k] EXCEPT !.status = "COMPLETED"]
        ELSE active[k] ]

\* The loop of validate_predictions, run by one coroutine while another may
\* be suspended in it: from the position of its list iterator (idx elements
\* taken, trade the element in hand, << >> between two elements) and of its
\* period loop (p) up to its next await, or through the removals to its end.
RECURSIVE pass_to_await(_, _, _, _, _, _)
pass_to_await(active, trade, idx, p, ct, rem) ==
    IF trade = << >>
    THEN IF idx >= Len(active)
         THEN LET r == remove_completed(active, rem)
              IN  [at |-> IF r.raised THEN "raised" ELSE "returned",
                   active |-> r.active, trade |-> << >>, idx |-> idx, p |-> 1,
                   rem |-> rem]
         ELSE pass_to_await(active, << active[idx + 1] >>, idx + 1, 1, ct, rem)
    ELSE IF p > Len(validation_periods)
    THEN IF trade_complete(ct, trade[1])
         THEN pass_to_await(mark_completed(active, trade[1]), << >>, idx, 1, ct,
                            Append(rem, [trade[1] EXCEPT !.status = "COMPLETED"]))
         ELSE pass_to_await(active, << >>, idx, 1, ct, rem)
    ELSE IF period_due(ct, trade[1], validation_periods[p])
    THEN [at |-> "await", active |-> active, trade |-> trade, idx |-> idx, p |-> p,
          rem |-> rem]
    ELSE pass_to_await(active, trade, idx, p + 1, ct, rem)

\* the coroutine runs the pass on from a position: to its next await, or until
\* validate_predictions returns or raises
task_runs(task, called, trade, idx, p, ct, rem) ==
    LET r == pass_to_await(active_paper_trades, trade, idx, p, ct, rem)
    IN  /\ active_paper_trades' = r.active
        /\ tasks' = [tasks EXCEPT ![task] =
                        IF r.at = "await"
                        THEN [ at |-> "await", wake |-> 0, called |-> called,
                               current_time |-> ct, trades_to_remove |-> r.rem,
                               trade |-> r.trade, idx |-> r.idx, p |-> r.p ]
                        ELSE outside_pass(r.at, 0, called)]

\* the coroutine calls validate_predictions at time t: with an empty list it
\* returns at once
task_calls(task, called, t) ==
    IF active_paper_trades = << >>
    THEN /\ tasks' = [tasks EXCEPT ![task] = outside_pass("returned", 0, called)]
         /\ UNCHANGED active_paper_trades
    ELSE task_runs(task, called, << >>, 0, 1, t, << >>)

\* what a loop step leaves alone
loop_unchanged ==
    UNCHANGED << predictions_file, paper_trades_file, pc, current_time,
                 trades_to_remove, trade_idx, period_idx, returned, attempts,
                 scanned, pending_retry, passes, reports, restarts, trades,
                 frame, config >>

\* The clock is followed as long as the active set holds an entry or the loop
\* is in its backoff: the time at which a sleep that ends at wake is over
time_after_sleep(wake) ==
    IF active_paper_trades = << >> /\ tasks["loop"].at # "backoff" THEN now ELSE wake

\* run_validation_loop is started, or its asyncio.sleep is over: it calls
\* validate_predictions.  No pass is suspended as long as a sleep lasts: a
\* fetch ends within aiohttp's total timeout.
loop_iterates ==
    /\ tasks["loop"].at \in { "idle", "sleep", "backoff" }
    /\ tasks["caller"].at # "await"
    /\ now' = IF tasks["loop"].at = "idle" THEN now
              ELSE time_after_sleep(tasks["loop"].wake)
    /\ task_calls("loop", 0, now')
    /\ loop_unchanged
    /\ UNCHANGED << validation_results_file, failures >>

\* mutant of loop_after_pass: run_validation_loop makes one pass and returns
loop_after_pass_once(at, t) == outside_pass("terminated", t, 0)

\* mutant of loop_after_pass: the exception leaves run_validation_loop
loop_after_pass_propagating(at, t) ==
    IF at = "raised" THEN outside_pass("terminated", t, 0)
    ELSE outside_pass("sleep", t + interval_minutes * 60 * TicksPerSecond, 0)

\* where run_validation_loop goes once validate_predictions has returned (the
\* sleep of the interval) or raised (the except clause: a sleep of 60 seconds)
loop_after_pass(at, t) ==
    IF at = "raised" THEN outside_pass("backoff", t + 60 * TicksPerSecond, 0)
    ELSE outside_pass("sleep", t + interval_minutes * 60 * TicksPerSecond, 0)

loop_continues ==
    /\ tasks["loop"].at \in { "returned", "raised" }
    /\ tasks' = [tasks EXCEPT !["loop"] = loop_after_pass(tasks["loop"].at, now)]
    /\ loop_unchanged
    /\ UNCHANGED << now, active_paper_trades, validation_results_file, failures >>

\* another coroutine calls validate_predictions
caller_calls ==
    /\ tasks["caller"].at \in { "idle", "returned", "raised" }
    /\ tasks["caller"].called < MaxCallerPasses
    /\ task_calls("caller", tasks["caller"].called + 1, now)
    /\ loop_unchanged
    /\ UNCHANGED << now, validation_results_file, failures >>

\* the fetch a coroutine is suspended in ends with resp:
\* validate_trade_at_period finishes, and the pass goes on
task_fetch_returns(task, resp) ==
    /\ tasks[task].at = "await"
    /\ resp \in Responses(tasks[task].trade[1].coin)
    /\ get_current_price(resp) = None => failures < MaxFetchFailures
    /\ failures' = IF get_current_price(resp) = None THEN failures + 1 ELSE failures
    /\ validation_results_file' =
           validate_trade_at_period(validation_results_file, tasks[task].trade[1],
                                    validation_periods[tasks[task].p],
                                    get_current_price(resp), now)
    /\ task_runs(task, tasks[task].called, tasks[task].trade, tasks[task].idx,
                 tasks[task].p + 1, tasks[task].current_time,
                 tasks[task].trades_to_remove)
    /\ loop_unchanged
    /\ UNCHANGED now

\* the paper-trade logs the program is started over: one entry, logged one
\* interval after time 0
LoopLogs ==
    { file \in ReloadFiles(1) :
        /\ Len(file) > 1
        /\ \A k \in 2..Len(file) :
               /\ ~parse_raises(file[k].entry_price)
               /\ file[k].entry_time = isoformat(timedelta(interval_minutes)) }

\* the program is started, 25 minutes after the entries were logged
InitLoop ==
    /\ now = timedelta(max_period.minutes)
    /\ predictions_file = << predictions_header >>
    /\ paper_trades_file \in LoopLogs
    /\ validation_results_file = << validation_results_header >>
    /\ active_paper_trades = load_active_paper_trades(paper_trades_file, now)
    /\ pc = "idle"
    /\ current_time = 0
    /\ trades_to_remove = << >>
    /\ trade_idx = 1
    /\ period_idx = 1
    /\ returned = [op |-> "__init__", value |-> << >>]
    /\ attempts = << >>
    /\ scanned = << >>
    /\ pending_retry = {}
    /\ failures = 0
    /\ passes = 0
    /\ reports = 0
    /\ restarts = 0
    /\ trades = << >>
    /\ tasks = no_tasks
    /\ frame = no_frame
    /\ config = get_default_config

loop_fetch_returns ==
    \E resp \in UNION { Responses(coin) : coin \in Coins } :
        task_fetch_returns("loop", resp)

caller_fetch_returns ==
    \E resp \in UNION { Responses(coin) : coin \in Coins } :
        task_fetch_returns("caller", resp)

NextLoop ==
    \/ loop_iterates
    \/ loop_continues
    \/ caller_calls
    \/ loop_fetch_returns
    \/ caller_fetch_returns

\* asyncio runs a coroutine that is ready, a sleep ends, and a fetch ends
\* (aiohttp's total timeout)
SpecLoop ==
    /\ InitLoop
    /\ [][NextLoop]_vars
    /\ WF_vars(loop_iterates)
    /\ WF_vars(loop_continues)
    /\ WF_vars(loop_fetch_returns)
    /\ WF_vars(caller_fetch_returns)

---------------------------------------------------------------------------
(* Properties of run_validation_loop *)

\* where run_validation_loop is
Loop == tasks["loop"]

\* the loop is inside a pass it has called, or that pass has just ended
PassCalled == Loop.at \in { "await", "returned", "raised" }

\* C24: run_validation_loop never terminates because of an error: an exception
\* raised inside an iteration (by validate_predictions, its removal step
\* included) is caught and followed by a backoff of 60 seconds, after which
\* another validation pass is started.
C24_LoopSurvivesException ==
    /\ [](Loop.at # "terminated")
    /\ [][ (Loop.at = "raised" /\ Loop' # Loop) =>
              /\ Loop'.at = "backoff"
              /\ Loop'.wake = now + 60 * TicksPerSecond
              /\ now' = now ]_vars
    /\ [][ (Loop.at = "backoff" /\ Loop' # Loop) =>
              /\ now' = now + 60 * TicksPerSecond
              /\ PassCalled' ]_vars
    /\ (Loop.at = "raised" ~> Loop.at = "backoff")
    /\ (Loop.at = "backoff" ~> PassCalled)

\* C24 witness: the pass the loop called after a backoff has returned (the
\* loop's passes start at multiples of the interval, but for a backoff)
C24_Witness ==
    /\ Loop.at = "returned"
    /\ now % timedelta(interval_minutes) = 60 * TicksPerSecond

---------------------------------------------------------------------------
(* run_backtest *)

MaxSamples == 2

\* self.symbols
symbols ==
    << "BTCUSDT", "ETHUSDT", "SOLUSDT", "SHIBUSDT", "DOGEUSDT", "PEPEUSDT" >>

Min(a, b) == IF a <= b THEN a ELSE b
Max(a, b) == IF a >= b THEN a ELSE b

RECURSIVE Sum(_)
Sum(s) == IF s = << >> THEN 0 ELSE Head(s) + Sum(Tail(s))

\* the square root, rounded down
isqrt(x) == CHOOSE r \in 0..x : r * r <= x /\ (r + 1) * (r + 1) > x

\* calculate_psc_ratio(crypto_price, base_price), in units of 1e-2.  A base
\* price is a fraction num / den, in << >> brackets; << >> is None, for which
\* the base price is crypto_price * 0.001.
calculate_psc_ratio(crypto_price, base_price) ==
    LET base == IF base_price = << >> THEN [num |-> crypto_price, den |-> 1000]
                ELSE base_price[1]
    IN  ((crypto_price * base.den) \div base.num) * 1000 * 100

\* the closes under the rolling window of 20 bars that ends at index i (from 0)
window_closes(df, i) == [ k \in 1..20 |-> df[i - 19 + k].close_price ]

\* (current_price - sma_20) / sma_20, as a fraction
price_momentum_at(df, i) ==
    LET total == Sum(window_closes(df, i))
    IN  [num |-> 20 * df[i + 1].close_price - total, den |-> total]

\* rolling(window=20).std() / current_price, in units of 1e-4, rounded down:
\* the standard deviation is sqrt(sum((20 x - total)^2) / (400 * 19))
volatility_at(df, i) ==
    LET closes == window_closes(df, i)
        total == Sum(closes)
        squares == Sum([ k \in 1..20 |-> (20 * closes[k] - total) * (20 * closes[k] - total) ])
    IN  (isqrt(squares \div 76) * 1000) \div df[i + 1].close_price

\* min(0.9, max(0.1, abs(price_momentum) * 2 + volatility)), in units of 1e-2,
\* rounded down
base_confidence(price_momentum, volatility) ==
    Min(90, Max(10, ((20000 * Abs(price_momentum.num)) \div price_momentum.den
                     + volatility) \div 100))

\* mutant of ml_confidence_of: the drawn value is not clamped
ml_confidence_unclamped(base, noise) == base + noise

\* max(0.1, min(0.9, ml_confidence)) of the value np.random.normal(base, 0.1)
\* returns, which lies noise from base
ml_confidence_of(base, noise) == Max(10, Min(90, base + noise))

\* the value np.random.uniform(low, high) returns: the u-th of those the model draws
uniform_at(low, high, u) ==
    IF u = 1 THEN low ELSE IF u = 2 THEN (low + high) \div 2 ELSE high - 1

\* mutant of future_data: the slice starts at the bar after the entry bar
future_data_after_entry(df, i) == SubSeq(df, i + 2, Min(i + 31, Len(df)))

\* mutant of future_data: the slice starts at the head of the series
future_data_from_start(df, i) == SubSeq(df, 1, Min(i + 30, Len(df)))

\* df.iloc[i:i+30]
future_data(df, i) == SubSeq(df, i + 1, Min(i + 30, Len(df)))

\* mutant of loop_ends: the tail check lets a sample at i + 30 = len(df) through
loop_ends_after_tail(df, i) == i >= Len(df) \/ i + 30 > Len(df)

\* for i in range(0, len(df), 30): if i + 30 >= len(df): break
loop_ends(df, i) == i >= Len(df) \/ i + 30 >= Len(df)

\* if i >= 20
indicators_ready(i) == i >= 20

\* run_backtest from the sample at index i of the series of symbols[s] up to
\* the next sample that draws a confidence, or to the end of its loops
RECURSIVE run_to_draw(_, _, _, _)
run_to_draw(db, s, i, fr) ==
    IF s > Len(symbols) THEN [fr EXCEPT !.at = "return"]
    ELSE LET df == db[symbols[s]]
         IN  IF df = << >> THEN run_to_draw(db, s + 1, 0, fr)
             ELSE IF loop_ends(df, i) THEN run_to_draw(db, s + 1, 0, fr)
             ELSE LET read == [fr EXCEPT !.iloc = Append(@, [symbol |-> symbols[s],
                                                              i |-> i, len |-> Len(df)])]
                      psc_ratio == calculate_psc_ratio(df[i + 1].close_price, << >>)
                  IN  IF /\ indicators_ready(i)
                         /\ determine_trade_direction(
                                psc_ratio, price_momentum_at(df, i),
                                volatility_at(df, i)) # "NEUTRAL"
                      THEN [read EXCEPT !.at = "draw", !.s = s, !.i = i]
                      ELSE run_to_draw(db, s, i + 30, read)

\* the frame once the sample in hand has drawn its confidence (noise) and, if
\* the confidence passes the gate, its target percentage (u)
sample_drawn(fr, noise, u) ==
    LET df == fr.db[symbols[fr.s]]
        current_data == df[fr.i + 1]
        psc_ratio == calculate_psc_ratio(current_data.close_price, << >>)
        price_momentum == price_momentum_at(df, fr.i)
        volatility == volatility_at(df, fr.i)
        direction == determine_trade_direction(psc_ratio, price_momentum, volatility)
        ml_confidence == ml_confidence_of(base_confidence(price_momentum, volatility),
                                          noise)
        entry_data == [ close_price |-> current_data.close_price,
                        datetime |-> current_data.datetime,
                        psc_ratio |-> psc_ratio,
                        momentum |-> price_momentum,
                        volatility |-> volatility ]
        band == target_band(ml_confidence)
        trade == simulate_trade(symbols[fr.s], entry_data, direction, ml_confidence,
                                uniform_at(band.low, band.high, u))
        drawn == [ symbol |-> symbols[fr.s], i |-> fr.i,
                   ml_confidence |-> ml_confidence,
                   traded |-> ml_confidence >= fr.min_confidence ]
    IN  IF ml_confidence >= fr.min_confidence
        THEN [fr EXCEPT !.all_trades =
                            Append(@, evaluate_trade_outcome(trade,
                                                             future_data(df, fr.i))),
                        !.entries = Append(@, [symbol |-> symbols[fr.s], i |-> fr.i,
                                               trade |-> trade,
                                               future_data |-> future_data(df, fr.i)]),
                        !.drawn = Append(@, drawn)]
        ELSE [fr EXCEPT !.drawn = Append(@, drawn)]

\* run_backtest goes on to its next draw, or returns: self.trades is set, and
\* analyze_results and create_training_data run over it
backtest_continues(r) ==
    IF r.at = "return"
    THEN /\ frame' = no_frame
         /\ trades' = r.all_trades
         /\ returned' = [ op |-> "run_backtest",
                          value |-> << r.all_trades >>,
                          db |-> r.db,
                          min_confidence |-> r.min_confidence,
                          iloc |-> r.iloc,
                          drawn |-> r.drawn,
                          entries |-> r.entries,
                          analysis |-> analyze_results(r.all_trades),
                          training_data |-> create_training_data(r.all_trades) ]
    ELSE /\ frame' = r
         /\ UNCHANGED << trades, returned >>

\* run_backtest(start_date, end_date, min_confidence) over the series the
\* database holds for the period
run_backtest(db, min_confidence) ==
    /\ frame.at = "off"
    /\ returned.op = "__init__"
    /\ backtest_continues(
           run_to_draw(db, 1, 0,
                       [ at |-> "loop", db |-> db, min_confidence |-> min_confidence,
                         s |-> 1, i |-> 0, all_trades |-> << >>, iloc |-> << >>,
                         drawn |-> << >>, entries |-> << >> ]))
    /\ validator_unchanged
    /\ UNCHANGED << tasks, config >>

\* np.random.normal, and np.random.uniform if it is called, return
run_backtest_draws(noise, u) ==
    /\ frame.at = "draw"
    /\ backtest_continues(
           run_to_draw(frame.db, frame.s, frame.i + 30, sample_drawn(frame, noise, u)))
    /\ validator_unchanged
    /\ UNCHANGED << tasks, config >>

\* series of n one-minute (or wider) bars whose close moves by slope a bar
Patterns ==
    { [slope |-> 0, step |-> 1], [slope |-> 15, step |-> 1],
      [slope |-> -15, step |-> 1], [slope |-> 15, step |-> 15] }

series(n, pattern) ==
    [ k \in 1..n |->
        [ datetime |-> pattern.step * (k - 1),
          high_price |-> 100000 + pattern.slope * (k - 1) + 20,
          low_price |-> 100000 + pattern.slope * (k - 1) - 20,
          close_price |-> 100000 + pattern.slope * (k - 1) ] ]

\* lengths: none, too short for a sample, and around each multiple of 30
SeriesLengths ==
    { 0, 1, 21, 30, 31 }
    \cup { 30 * k + d : k \in 2..(MaxSamples + 1), d \in { 0, 1, 2 } }

\* what get_historical_data finds for each symbol: a series for the first
\* symbol only, or one for each of the first two
Databases ==
    { [ symbol \in Range(symbols) |->
          IF symbol = "BTCUSDT" THEN series(n, pattern) ELSE << >> ] :
      n \in SeriesLengths, pattern \in Patterns }
    \cup { [ symbol \in Range(symbols) |->
               IF symbol = "BTCUSDT" THEN series(62, pattern)
               ELSE IF symbol = "ETHUSDT" THEN series(61, pattern)
               ELSE << >> ] :
           pattern \in Patterns }

MinConfidences == { 50, 85 }

\* the distance of the value np.random.normal returns from its mean
Noise == { -100, 40, 50, 100 }

NextRun ==
    \/ \E db \in Databases, min_confidence \in MinConfidences :
           run_backtest(db, min_confidence)
    \/ \E noise \in Noise, u \in 1..3 : run_backtest_draws(noise, u)

SpecRun == Init /\ [][NextRun]_vars

---------------------------------------------------------------------------
(* Properties of run_backtest *)

Running == frame.at = "draw"
Ran == returned.op = "run_backtest"

\* the history of the run in hand, or of the run that returned
Run == IF Running THEN frame ELSE returned

\* C25: the sampling loop reads only indexes inside the series, and every
\* index at which a sample is taken is a multiple of 30, at least 20, and has
\* a full forward window: i + 30 < len(df).
C25_SamplesInsideSeries ==
    (Running \/ Ran) =>
        /\ \A k \in DOMAIN Run.iloc :
               /\ Run.iloc[k].len = Len(Run.db[Run.iloc[k].symbol])
               /\ 0 <= Run.iloc[k].i
               /\ Run.iloc[k].i < Run.iloc[k].len
               /\ Run.iloc[k].i % 30 = 0
        /\ \A k \in DOMAIN Run.drawn :
               /\ Run.drawn[k].i % 30 = 0
               /\ Run.drawn[k].i >= 20
               /\ Run.drawn[k].i + 30 < Len(Run.db[Run.drawn[k].symbol])
        /\ Running =>
               /\ frame.i % 30 = 0
               /\ frame.i >= 20
               /\ frame.i + 30 < Len(frame.db[symbols[frame.s]])

\* a run took its last sample with exactly one bar to spare, after an earlier
\* sample of the same series
C25_Witness ==
    /\ Ran
    /\ \E k \in DOMAIN returned.drawn :
           /\ returned.drawn[k].i = 60
           /\ Len(returned.db[returned.drawn[k].symbol]) = 91
    /\ \E k \in DOMAIN returned.iloc : returned.iloc[k].i = 0

\* C26: evaluate_trade_outcome is passed exactly the bars at the indexes
\* i .. i+29 of the series, none of them earlier than the entry bar, and the
\* recorded outcome is the outcome over those bars.
C26_OutcomeFromForwardWindow ==
    Ran =>
        /\ Len(returned.value[1]) = Len(returned.entries)
        /\ \A k \in DOMAIN returned.entries :
               LET e == returned.entries[k]
                   df == returned.db[e.symbol]
                   window == [ j \in 1..30 |-> df[e.i + j] ]
               IN  /\ e.future_data = window
                   /\ e.trade.entry_time = df[e.i + 1].datetime
                   /\ \A j \in DOMAIN e.future_data :
                          e.future_data[j].datetime >= e.trade.entry_time
                   /\ returned.value[1][k] = evaluate_trade_outcome(e.trade, window)

\* a trade entered at index 30 of a rising series was evaluated: the bars
\* before it are lower than every bar of its window
C26_Witness ==
    /\ Ran
    /\ \E k \in DOMAIN returned.entries :
           LET e == returned.entries[k]
               df == returned.db[e.symbol]
           IN  /\ e.i = 30
               /\ df[1].close_price < df[31].close_price
               /\ returned.value[1][k].status = "COMPLETED"
               /\ returned.value[1][k].exit_price > df[30].high_price

\* the indexes at which run_backtest samples a series
SampleIndexes(df) == { i \in 0..Len(df) : i % 30 = 0 /\ i >= 20 /\ i + 30 < Len(df) }

\* C27: there is a series for which run_backtest, which calls
\* calculate_psc_ratio without a base price, takes a SHORT trade: the run that
\* returned holds one, or another series of the family has a sample whose
\* direction is SHORT.
C27_SomeSeriesGoesShort ==
    Ran =>
        \/ \E k \in DOMAIN returned.value[1] :
               returned.value[1][k].direction = "SHORT"
        \/ \E db \in Databases, symbol \in Range(symbols) :
               \E i \in SampleIndexes(db[symbol]) :
                   determine_trade_direction(
                       calculate_psc_ratio(db[symbol][i + 1].close_price, << >>),
                       price_momentum_at(db[symbol], i),
                       volatility_at(db[symbol], i)) = "SHORT"

\* C29: every trade of run_backtest has a direction other than NEUTRAL and a
\* confidence from min_confidence to 0.9 (and at least 0.1); a sample whose
\* confidence is below min_confidence yields no trade record.
C29_TradesPassConfidenceGate ==
    Ran =>
        /\ \A k \in DOMAIN returned.value[1] :
               LET trade == returned.value[1][k]
               IN  /\ trade.direction \in { "LONG", "SHORT" }
                   /\ trade.confidence >= returned.min_confidence
                   /\ trade.confidence <= 90
                   /\ trade.confidence >= 10
        /\ \A k \in DOMAIN returned.drawn :
               LET d == returned.drawn[k]
                   recorded == { j \in DOMAIN returned.value[1] :
                                   /\ returned.value[1][j].symbol = d.symbol
                                   /\ returned.value[1][j].entry_time =
                                          returned.db[d.symbol][d.i + 1].datetime }
               IN  /\ d.ml_confidence < returned.min_confidence => recorded = { }
                   /\ d.ml_confidence >= returned.min_confidence =>
                          /\ Cardinality(recorded) = 1
                          /\ \A j \in recorded :
                                 returned.value[1][j].confidence = d.ml_confidence

\* a run returned in which one sample passed the gate exactly at
\* min_confidence and another fell below it
C29_Witness ==
    /\ Ran
    /\ \E k \in DOMAIN returned.value[1] :
           returned.value[1][k].confidence = returned.min_confidence
    /\ \E k \in DOMAIN returned.drawn :
           returned.drawn[k].ml_confidence < returned.min_confidence

---------------------------------------------------------------------------
(* Properties of calculate_target_price *)

\* the bands of the target percentage, lowest first, in units of 1e-5
TargetBands == << [low |-> 120, high |-> 130], [low |-> 130, high |-> 150],
                  [low |-> 150, high |-> 200] >>
BandIndex(confidence) ==
    IF confidence >= 80 THEN 3 ELSE IF confidence >= 60 THEN 2 ELSE 1

\* C30: the target percentage lies in the band of the trade's confidence
\* (>= 0.8: 0.15-0.20%, >= 0.6 and < 0.8: 0.13-0.15%, else 0.12-0.13%), the
\* target is entry * (1 + pct) for LONG and entry * (1 - pct) for SHORT, and its
\* distance from the entry is no smaller than any a lower band can give.
C30_TargetBandByConfidence ==
    Simulated =>
        LET trade == returned.value[1]
            pct == returned.target_pct
            band == TargetBands[BandIndex(trade.confidence)]
            distance == IF trade.direction = "LONG"
                        THEN trade.target_price - trade.entry_price
                        ELSE trade.entry_price - trade.target_price
        IN  /\ band.low <= pct
            /\ pct <= band.high
            /\ distance * PctUnit <= trade.entry_price * pct
            /\ distance * PctUnit > trade.entry_price * pct - PctUnit
            /\ \A lower \in 1..(BandIndex(trade.confidence) - 1) :
                   \A lower_pct \in TargetBands[lower].low..(TargetBands[lower].high - 1) :
                       distance * PctUnit > trade.entry_price * lower_pct - PctUnit

\* a SHORT trade at the confidence where the highest band starts, with the
\* lowest value of that band
C30_Witness ==
    /\ Simulated
    /\ returned.value[1].confidence = 80
    /\ returned.value[1].direction = "SHORT"
    /\ returned.target_pct = 150
    /\ returned.value[1].target_price < returned.value[1].entry_price

---------------------------------------------------------------------------
(* The dashboard: modify_trading_config, modify_superp_config, modify_ml_config *)

\* what input() returns, stripped: nothing, an integer literal, a decimal
\* literal, a word
IntegerLiterals == { "45" }
DecimalLiterals == { "0.8" }
Texts == { "", "abc" } \cup IntegerLiterals \cup DecimalLiterals
Answers == { "", "y", "n", "abc" }

\* int(text) and float(text) raise ValueError
raises_ValueError(convert, text) ==
    IF convert = "int" THEN text \notin IntegerLiterals
    ELSE text \notin IntegerLiterals \cup DecimalLiterals

\* the number int(text) or float(text) returns, in units of 1e-2
number_of(text) == IF text = "45" THEN 4500 ELSE 80

\* the fields each handler asks for, in its order; a range field sets the
\* second element of its list
trading_fields ==
    << [key |-> "scan_interval", convert |-> "int", range |-> FALSE],
       [key |-> "confidence_threshold", convert |-> "float", range |-> FALSE],
       [key |-> "ratio_threshold", convert |-> "float", range |-> FALSE],
       [key |-> "max_positions", convert |-> "int", range |-> FALSE],
       [key |-> "position_size", convert |-> "int", range |-> FALSE] >>
superp_fields ==
    << [key |-> "enabled", convert |-> "y/n", range |-> FALSE],
       [key |-> "conservative_range", convert |-> "int", range |-> TRUE],
       [key |-> "moderate_range", convert |-> "int", range |-> TRUE],
       [key |-> "aggressive_range", convert |-> "int", range |-> TRUE],
       [key |-> "time_limit_minutes", convert |-> "int", range |-> FALSE] >>
ml_fields ==
    << [key |-> "enabled", convert |-> "y/n", range |-> FALSE],
       [key |-> "retrain_interval", convert |-> "int", range |-> FALSE],
       [key |-> "confidence_boost", convert |-> "float", range |-> FALSE] >>

\* the body of a handler's try block from its k-th input on: the section as
\* it stands when the block is left, and whether by ValueError
RECURSIVE modify_fields(_, _, _, _)
modify_fields(section, fields, inputs, k) ==
    IF k > Len(fields) THEN [section |-> section, raised |-> FALSE, asked |-> k - 1]
    ELSE LET field == fields[k]
             text == inputs[k]
         IN  IF field.convert = "y/n"
             THEN modify_fields(
                      IF text = "y" THEN [section EXCEPT ![field.key] = TRUE]
                      ELSE IF text = "n" THEN [section EXCEPT ![field.key] = FALSE]
                      ELSE section,
                      fields, inputs, k + 1)
             ELSE IF text = "" THEN modify_fields(section, fields, inputs, k + 1)
             ELSE IF raises_ValueError(field.convert, text)
             THEN [section |-> section, raised |-> TRUE, asked |-> k]
             ELSE modify_fields(
                      IF field.range
                      THEN [section EXCEPT ![field.key][2] = number_of(text)]
                      ELSE [section EXCEPT ![field.key] = number_of(text)],
                      fields, inputs, k + 1)

\* a handler of modify_config leaves its try block: the dict it was passed is
\* changed in place, and how the block ended is printed
handler_returns(op, name, fields, inputs) ==
    LET done == modify_fields(config[name], fields, inputs, 1)
    IN  /\ config' = [config EXCEPT ![name] = done.section]
        /\ returned' = [ op |-> op,
                         value |-> << >>,
                         printed |-> IF done.raised THEN "Invalid input"
                                     ELSE "parameters updated",
                         section |-> name,
                         fields |-> fields,
                         inputs |-> SubSeq(inputs, 1, done.asked),
                         config |-> config ]

modify_trading_config(inputs) ==
    /\ returned.op = "__init__"
    /\ handler_returns("modify_trading_config", "trading", trading_fields, inputs)
    /\ validator_unchanged
    /\ UNCHANGED << trades, tasks, frame >>

modify_superp_config(inputs) ==
    /\ returned.op = "__init__"
    /\ handler_returns("modify_superp_config", "superp", superp_fields, inputs)
    /\ validator_unchanged
    /\ UNCHANGED << trades, tasks, frame >>

modify_ml_config(inputs) ==
    /\ returned.op = "__init__"
    /\ handler_returns("modify_ml_config", "ml", ml_fields, inputs)
    /\ validator_unchanged
    /\ UNCHANGED << trades, tasks, frame >>

NextConfig ==
    \/ \E inputs \in [ 1..5 -> Texts ] : modify_trading_config(inputs)
    \/ \E enabled \in Answers, inputs \in [ 1..4 -> Texts ] :
           modify_superp_config(<< enabled >> \o inputs)
    \/ \E enabled \in Answers, inputs \in [ 1..2 -> Texts ] :
           modify_ml_config(<< enabled >> \o inputs)

SpecConfig == Init /\ [][NextConfig]_vars

---------------------------------------------------------------------------
(* Properties of the dashboard's handlers *)

Modified ==
    returned.op \in { "modify_trading_config", "modify_superp_config",
                      "modify_ml_config" }

\* the last input the handler asked for was a word, for a numeric field
WordForNumber ==
    /\ returned.inputs # << >>
    /\ returned.inputs[Len(returned.inputs)] = "abc"
    /\ returned.fields[Len(returned.inputs)].convert \in { "int", "float" }

\* C28: when a non-numeric value is entered for a numeric field of a handler,
\* the handler reports the invalid input and the configuration is as it was
\* before the call, the fields entered validly before it included.
C28_RejectedInputLeavesConfig ==
    (Modified /\ WordForNumber) =>
        /\ returned.printed = "Invalid input"
        /\ config = returned.config

---------------------------------------------------------------------------
(* Properties of the hold window *)

\* the bars of the series later than entry_time + 10 min
LaterBars ==
    { b \in Bars(returned.trade.entry_price) :
        b.datetime > returned.trade.entry_time + 10 }

\* C31: evaluate_trade_outcome ignores every bar later than entry_time + 10
\* min: the outcome over the series is the outcome over its bars within
\* [entry_time, entry_time + 10 min] alone, and over those bars followed by any
\* later bar, so two series that agree within the window give the same outcome
\* fields; the duration of a COMPLETED trade is from 0 to 10 minutes.
C31_LaterBarsIgnored ==
    Evaluated =>
        /\ returned.value[1] = evaluate_trade_outcome(returned.trade, HoldBars)
        /\ \A later \in LaterBars :
               evaluate_trade_outcome(returned.trade, Append(HoldBars, later))
                   = returned.value[1]
        /\ returned.value[1].status = "COMPLETED" =>
               /\ returned.value[1].duration_minutes >= 0
               /\ returned.value[1].duration_minutes <= 10

\* a trade was evaluated over a series whose only bar within the window does
\* not reach the target while a bar after the window does
C31_Witness ==
    /\ Evaluated
    /\ Len(HoldBars) = 1
    /\ ~Crossed
    /\ \E k \in 1..Len(returned.price_data) :
           /\ returned.price_data[k].datetime > returned.trade.entry_time + 10
           /\ Crosses(returned.price_data[k])
    /\ returned.value[1].status = "COMPLETED"
    /\ ~returned.value[1].hit_target

---------------------------------------------------------------------------
(* Properties of the outcomes of run_backtest *)

\* C37: in run_backtest the slice passed to evaluate_trade_outcome starts with
\* the entry bar, whose timestamp is the trade's entry_time, and every trade
\* run_backtest returns has status COMPLETED, none NO_DATA.
C37_NoDataUnreachable ==
    Ran =>
        /\ \A k \in DOMAIN returned.entries :
               /\ returned.entries[k].future_data # << >>
               /\ returned.entries[k].future_data[1].datetime
                      = returned.entries[k].trade.entry_time
        /\ \A k \in DOMAIN returned.value[1] :
               returned.value[1][k].status = "COMPLETED"
        /\ \A k \in DOMAIN trades : trades[k].status # "NO_DATA"

\* a run returned a trade over a series with a bar every 15 minutes: the entry
\* bar is the only bar within the hold window
C37_Witness ==
    /\ Ran
    /\ \E k \in DOMAIN returned.entries :
           LET e == returned.entries[k]
           IN  /\ e.future_data[2].datetime > e.trade.entry_time + 10
               /\ returned.value[1][k].status = "COMPLETED"
               /\ returned.value[1][k].exit_time = e.trade.entry_time
               /\ returned.value[1][k].duration_minutes = 0

---------------------------------------------------------------------------
(* Properties of the live rows' success flag and category *)

\* C36: in every validation row success is True exactly when profit_category
\* is PROFITABLE, GOOD or EXCELLENT, at a profit of exactly 0.0012 too.
C36_SuccessAgreesWithCategory ==
    \A k \in 1..Len(validation_rows) :
        validation_rows[k].success
            <=> validation_rows[k].profit_category
                    \in { "PROFITABLE", "GOOD", "EXCELLENT" }

\* a row was written for a SHORT position at a profit of exactly 0.0012: it is
\* a success and PROFITABLE
C36_Witness ==
    /\ Validated
    /\ \E k \in 1..Len(validation_rows) :
           /\ validation_rows[k].direction = "SHORT"
           /\ validation_rows[k].actual_profit_pct = 120
           /\ returned.trade.entry_price - returned.current_price
                  = (returned.trade.entry_price \div 10000) * 12
           /\ validation_rows[k].success
           /\ validation_rows[k].profit_category = "PROFITABLE"

---------------------------------------------------------------------------
(* A run of the live tracker, or of the backtester's functions over one trade *)

BacktestOps == { "determine_trade_direction", "simulate_trade", "evaluate_trade_outcome" }

NextEither ==
    \/ returned.op \notin BacktestOps /\ Next
    \/ calls = 0 /\ now = 0 /\ NextBacktest

SpecEither == Init /\ [][NextEither]_vars

---------------------------------------------------------------------------
(* Properties of the status of a record *)

OutcomeFields ==
    { "exit_price", "exit_time", "profit_pct", "hit_target", "success",
      "duration_minutes" }

\* the record of simulate_trade is PENDING and has no outcome field;
\* evaluate_trade_outcome takes a PENDING record to COMPLETED or NO_DATA
HistoricalStatus ==
    /\ Simulated =>
           /\ returned.value[1].status = "PENDING"
           /\ DOMAIN returned.value[1] \cap OutcomeFields = { }
    /\ Evaluated =>
           /\ returned.trade.status = "PENDING"
           /\ returned.value[1].status \in { "COMPLETED", "NO_DATA" }
           /\ OutcomeFields \ { "success" } \subseteq DOMAIN returned.value[1]

\* a live entry is ACTIVE or COMPLETED
LiveStatus ==
    \A k \in 1..Len(active_paper_trades) :
        active_paper_trades[k].status \in { "ACTIVE", "COMPLETED" }

\* in a step, an entry that stays at its place in the active set and is
\* COMPLETED stays COMPLETED, and an entry that joins the set is ACTIVE
LiveStatusForward ==
    /\ \A k \in 1..Len(active_paper_trades) :
           ( /\ k <= Len(active_paper_trades')
             /\ is_object(active_paper_trades[k], active_paper_trades'[k])
             /\ active_paper_trades[k].status = "COMPLETED" )
               => active_paper_trades'[k].status = "COMPLETED"
    /\ \A k \in (Len(active_paper_trades) + 1)..Len(active_paper_trades') :
           active_paper_trades'[k].status = "ACTIVE"

\* C33: the record simulate_trade returns is PENDING without outcome fields,
\* evaluate_trade_outcome moves it to exactly one of COMPLETED and NO_DATA, and
\* the status of a live entry only changes from ACTIVE to COMPLETED, never back.
C33_StatusMovesForward ==
    /\ [](HistoricalStatus /\ LiveStatus)
    /\ [][LiveStatusForward]_vars

\* a pass has marked an entry COMPLETED and waits for a price for a later
\* entry: the active set holds a COMPLETED and an ACTIVE entry
C33_Witness ==
    /\ pc = "await"
    /\ \E k \in 1..Len(active_paper_trades) :
           active_paper_trades[k].status = "COMPLETED"
    /\ \E k \in 1..Len(active_paper_trades) :
           active_paper_trades[k].status = "ACTIVE"

---------------------------------------------------------------------------
(* The tracker started over a paper-trade log found on disk, then restarted *)

\* the state after the constructor has loaded the log
InitResume ==
    /\ now = timedelta(interval_minutes)
    /\ predictions_file = << predictions_header >>
    /\ paper_trades_file \in ReloadFiles(MaxReloadRows)
    /\ validation_results_file = << validation_results_header >>
    /\ active_paper_trades = load_active_paper_trades(paper_trades_file, now)
    /\ pc = "idle"
    /\ current_time = 0
    /\ trades_to_remove = << >>
    /\ trade_idx = 1
    /\ period_idx = 1
    /\ returned = [op |-> "__init__", value |-> << >>]
    /\ attempts = << >>
    /\ scanned = << >>
    /\ pending_retry = {}
    /\ failures = 0
    /\ passes = 0
    /\ reports = 0
    /\ restarts = 0
    /\ trades = << >>
    /\ tasks = no_tasks
    /\ frame = no_frame
    /\ config = get_default_config

NextResume ==
    \/ \E inp \in LogInputs : log_prediction(inp)
    \/ restart
    \/ sleep

SpecResume == InitResume /\ [][NextResume]_vars

---------------------------------------------------------------------------
(* Properties of the restart *)

\* the entry's maximum horizon deadline is later than t
DeadlineAfter(trade, t) == t < trade.entry_time + timedelta(30)

\* C34: every entry that is in the active set when the process is restarted
\* and whose maximum horizon deadline is still in the future at reload time is
\* in the active set after the reload, with the same prediction id, coin,
\* direction and entry_time.
C34_ResumeAcrossRestart ==
    [][ restarts' = restarts + 1 =>
            \A k \in 1..Len(active_paper_trades) :
                DeadlineAfter(active_paper_trades[k], now') =>
                    \E j \in 1..Len(active_paper_trades') :
                        /\ active_paper_trades'[j].prediction_id
                               = active_paper_trades[k].prediction_id
                        /\ active_paper_trades'[j].coin = active_paper_trades[k].coin
                        /\ active_paper_trades'[j].direction
                               = active_paper_trades[k].direction
                        /\ active_paper_trades'[j].entry_time
                               = active_paper_trades[k].entry_time ]_vars

---------------------------------------------------------------------------
(* A pass over entries whose last deadline has come, with predictions logged
   while it is suspended *)

\* the paper-trade logs the program is started over: one row, which
\* start_paper_trade wrote at time 0
ScanLogs ==
    { file \in ReloadFiles(1) :
        /\ Len(file) > 1
        /\ \A k \in 2..Len(file) :
               /\ ~parse_raises(file[k].entry_price)
               /\ file[k].entry_time = isoformat(0) }

\* the program is started five minutes before the last deadline of the entries
InitScan ==
    /\ now = timedelta(max_period.minutes - interval_minutes)
    /\ predictions_file = << predictions_header >>
    /\ paper_trades_file \in ScanLogs
    /\ validation_results_file = << validation_results_header >>
    /\ active_paper_trades = load_active_paper_trades(paper_trades_file, now)
    /\ pc = "idle"
    /\ current_time = 0
    /\ trades_to_remove = << >>
    /\ trade_idx = 1
    /\ period_idx = 1
    /\ returned = [op |-> "__init__", value |-> << >>]
    /\ attempts = << >>
    /\ scanned = << >>
    /\ pending_retry = {}
    /\ failures = 0
    /\ passes = 0
    /\ reports = 0
    /\ restarts = 0
    /\ trades = << >>
    /\ tasks = no_tasks
    /\ frame = no_frame
    /\ config = get_default_config

\* log_prediction is called while the pass awaits a price
log_prediction_in_pass(inp) ==
    /\ pc = "await"
    /\ Len(DictReader(predictions_file)) < MaxPredictions
    /\ logs_prediction(inp)

NextScan ==
    \/ validate_predictions
    \/ \E resp \in UNION { Responses(coin) : coin \in Coins } : fetch_returns(resp)
    \/ \E inp \in LogInputs : log_prediction_in_pass(inp)
    \/ sleep

SpecScan == InitScan /\ [][NextScan]_vars

---------------------------------------------------------------------------
(* Properties of the removal of completed entries *)

\* the entries of the list other than those marked COMPLETED
NotCompleted(list) == SelectSeq(list, LAMBDA e : e.status # "COMPLETED")

\* every entry of the active set is at its place after the step
KeptInPlace ==
    /\ Len(active_paper_trades') >= Len(active_paper_trades)
    /\ \A k \in 1..Len(active_paper_trades) :
           is_object(active_paper_trades[k], active_paper_trades'[k])

\* the step ends a pass that scanned entries
PassEnds == PassStep /\ pc' = "idle" /\ returned'.op = "validate_predictions"

\* C32: validate_predictions removes no element of the active set during its
\* scan: while the pass goes from await to await every entry keeps its place,
\* and the step that ends the pass removes, after the scan, exactly the entries
\* the scan marked COMPLETED, those whose maximum deadline had passed; an entry
\* log_prediction appended while the pass was suspended is in the active set
\* after the pass.
C32_RemovalAfterScan ==
    [][ /\ (pc' = "await" \/ ~PassStep) => KeptInPlace
        /\ (PassEnds /\ active_paper_trades # << >>) =>
               /\ Len(scanned') = Len(active_paper_trades)
               /\ \A k \in 1..Len(active_paper_trades) :
                      /\ is_object(active_paper_trades[k], scanned'[k])
                      /\ scanned'[k].status = "COMPLETED"
                             <=> current_time' >= active_paper_trades[k].entry_time
                                                      + timedelta(30)
               /\ active_paper_trades' = NotCompleted(scanned')
               /\ \A k \in 1..Len(active_paper_trades) :
                      active_paper_trades[k].entry_time >= current_time'
                          => active_paper_trades[k] \in Range(active_paper_trades') ]_vars

\* a pass has returned that removed an entry and left in the active set an
\* entry logged while it was suspended
C32_Witness ==
    /\ PassReturned
    /\ Len(scanned) > Len(active_paper_trades)
    /\ active_paper_trades # << >>
    /\ \A k \in 1..Len(active_paper_trades) :
           active_paper_trades[k].entry_time >= current_time
    /\ attempts # << >>

---------------------------------------------------------------------------
(* Properties of the eviction under run_validation_loop *)

\* C35: as long as run_validation_loop keeps calling validate_predictions,
\* every entry of the active set is eventually removed from it, whether or not
\* its price fetches fail: the active set is empty from some time on.
C35_EvictionLiveness ==
    /\ (active_paper_trades # << >>) ~> (active_paper_trades = << >>)
    /\ <>[](active_paper_trades = << >>)

\* the entry has been evicted by a pass of the loop after a fetch had failed
C35_Witness ==
    /\ active_paper_trades = << >>
    /\ failures > 0
    /\ Loop.at = "returned"
    /\ tasks["caller"].at = "idle"

\* C38: when two validate_predictions passes overlap, neither fails: no pass
\* ends in the ValueError of removing an entry another pass has removed.
C38_OverlappingPassesSucceed ==
    \A task \in Tasks : tasks[task].at # "raised"

====
